---- MODULE Spec2Model ----
(***************************************************************************)
(* Model of the Moodle ELT ingestion core:                                 *)
(*   dags/utils/moodle_api.py  MoodleAPIClient._call_api and helpers       *)
(*   dags/moodle4_dag.py       per-course fan-out extraction, load_raw_data *)
(***************************************************************************)
EXTENDS Integers, Sequences, FiniteSets, Bags, TLC

VARIABLES
    \* ---- MoodleAPIClient (one client, calls issued one after another) ----
    max_retries,        \* Retry(total=max_retries)
    rate_limit_delay,   \* self.rate_limit_delay
    pc,                 \* position of the running _call_api
    total,              \* retries the Retry object still allows
    attempts,           \* requests sent by the running call
    retriedOn,          \* the attempt outcomes the running call retried on
    response,           \* the response session.post returned
    data,               \* response.json()
    outcome,            \* how the last _call_api ended
    sleeps,             \* every time.sleep(self.rate_limit_delay) so far
    log,                \* the events of the running / last call, in order
    nCalls,             \* calls started
    nReturned,          \* calls that returned
    wsfunction,         \* the Moodle function the running / last call is for
    methodResult,       \* what the extraction method on top of the call returned
    \* ---- per-course fan-out extraction (extract_enrolments and its like) ----
    courses,            \* ti.xcom_pull(task_ids='extract_courses', key='courses')
    fpc,                \* position of the extraction task
    ci,                 \* index of the course the loop is at
    all_records,        \* all_enrolments / all_methods / all_grade_items / all_grades
    fetched,            \* what the per-course call gave for each course so far
    called,             \* the course ids a remote call was made for
    errorsLogged,       \* logger.error calls of the loop
    fanOutcome,         \* what the task pushed to XCom and returned
    \* ---- load_raw_data and the moodle_raw table ----
    nullsDistinct,      \* whether the unique key of moodle_raw treats NULL ids as distinct
    now,                \* the clock datetime.utcnow() reads
    xcom,               \* the batch the extraction task pushed
    moodle_raw,         \* the committed rows of the table (a bag)
    lpc,                \* position of each run of the load task
    entity,             \* the entity argument of each run
    records,            \* the records each run prepared
    k,                  \* index of the record each run inserts next
    txn,                \* rows each run inserted in its open transaction (a bag)
    conn,               \* state of each run's connection and cursor
    result,             \* how each run's last attempt ended
    tries,              \* attempts of each run so far
    nAttempts,          \* attempts of all runs so far
    warnings,           \* the schema validation warnings each run's last attempt logged
    \* ---- MoodleAPIClient(base_url, token) ----
    urlIn,              \* the base_url argument
    tokenIn,            \* the token argument
    cpc,                \* position of the constructor
    client,             \* the constructed client
    ctorResult,         \* what _validate_url gave
    \* ---- parse_moodle_config / get_moodle_instance_config ----
    urlsIn,             \* the urls_str argument
    tokensIn,           \* the tokens_str argument
    wantedIn,           \* the instance_id argument
    ppc,                \* which of the two functions has been called
    parseResult,        \* what parse_moodle_config gave
    resolveResult,      \* what get_moodle_instance_config gave
    \* ---- an extraction task up to its first request ----
    store,              \* the Airflow Variables
    tpc,                \* position of the task
    requests,           \* the requests the task has sent
    asked,              \* the function and the parameters of each of them
    taskError,          \* the error that left get_moodle_client
    \* ---- compute_hash ----
    d1,                 \* the data hashed
    d2,                 \* the same data, its keys in another order
    hpc,                \* position of the two calls of compute_hash
    digest1,            \* compute_hash(d1)
    digest2,            \* compute_hash(d2)
    \* ---- prepare_raw_record ----
    labelIn,            \* the entity argument
    itemIn,             \* the data argument
    rpc,                \* who called prepare_raw_record
    prepared,           \* the record it returned
    \* ---- the task graph of the DAG ----
    started,            \* the tasks the scheduler has started
    completed           \* the tasks that have succeeded

callVars == <<max_retries, rate_limit_delay, pc, total, attempts, retriedOn,
              response, data, outcome, sleeps, log, nCalls, nReturned,
              wsfunction, methodResult>>

fanVars == <<courses, fpc, ci, all_records, fetched, called, errorsLogged,
             fanOutcome>>

loadVars == <<nullsDistinct, now, xcom, moodle_raw, lpc, entity, records, k, txn,
              conn, result, tries, nAttempts, warnings>>

ctorVars == <<urlIn, tokenIn, cpc, client, ctorResult>>

parseVars == <<urlsIn, tokensIn, wantedIn, ppc, parseResult, resolveResult>>

taskVars == <<store, tpc, requests, asked, taskError>>

hashVars == <<d1, d2, hpc, digest1, digest2>>

prepVars == <<labelIn, itemIn, rpc, prepared>>

dagVars == <<started, completed>>

auxVars == <<hashVars, prepVars, dagVars>>

coreVars == <<callVars, fanVars, loadVars, ctorVars, parseVars, taskVars>>

cfgVars == <<ctorVars, parseVars, taskVars, auxVars>>

vars == <<callVars, fanVars, loadVars, cfgVars>>

(***************************************************************************)
(* Bounds                                                                  *)
(***************************************************************************)
MaxRetries == 2
MaxDelay == 1
MaxCalls == 2
MaxCourses == 3
MaxBatch == 2
MaxClock == 1
MaxAttempts == 2
MaxEntries == 3
MaxKeys == 2
MaxActive == 2

(***************************************************************************)
(* JSON values.  An object is a set of <<key, value>> pairs with distinct  *)
(* keys; a decoded body is a list of objects, one object, or a scalar.     *)
(***************************************************************************)
HasKey(d, key) == \E p \in d : p[1] = key

DictGet(d, key, default) ==
    IF HasKey(d, key) THEN (CHOOSE p \in d : p[1] = key)[2] ELSE default

ObjUser1 == {<<"id", "1">>, <<"name", "Test">>}
ObjUser2 == {<<"id", "2">>}
ObjMessageOnly == {<<"message", "hello">>}
ObjError == {<<"exception", "x">>, <<"message", "bad token">>}
ObjErrorNoMessage == {<<"exception", "x">>}

ListBody(xs) == [kind |-> "list", elems |-> xs, obj |-> {}]

\* objects that wrap a collection: {"users": [...]}, {"usergrades": [...]},
\* {"tables": [...]}
ObjUsersWrapper == {<<"users", ListBody(<<ObjUser1>>)>>}
ObjUserGradesWrapper == {<<"usergrades", ListBody(<<ObjUser2>>)>>}
ObjTablesWrapper == {<<"tables", ListBody(<<ObjUser1, ObjUser2>>)>>}

DictBody(d) == [kind |-> "dict", elems |-> <<>>, obj |-> d]
ScalarBody == [kind |-> "scalar", elems |-> <<>>, obj |-> {}]
NoData == [kind |-> "none", elems |-> <<>>, obj |-> {}]

Bodies ==
    { ListBody(<<>>), ListBody(<<ObjUser1>>), ListBody(<<ObjUser1, ObjUser2>>),
      ListBody(<<ObjUser2, ObjUser1>>), ListBody(<<ObjError>>),
      DictBody(ObjUser1), DictBody(ObjMessageOnly), DictBody({}),
      DictBody(ObjError), DictBody(ObjErrorNoMessage), ScalarBody,
      DictBody(ObjUsersWrapper), DictBody(ObjUserGradesWrapper),
      DictBody(ObjTablesWrapper) }

(***************************************************************************)
(* What one attempt of session.post can end in: a connection or read error *)
(* (timeouts included), or a response with a status code, which may carry  *)
(* a Retry-After header.                                                   *)
(***************************************************************************)
StatusCodes == {200, 404, 413, 429, 500, 502, 503, 504}

NetError == [net |-> TRUE, code |-> 0, retry_after |-> FALSE]
Status(c) == [net |-> FALSE, code |-> c, retry_after |-> FALSE]
StatusRetryAfter(c) == [net |-> FALSE, code |-> c, retry_after |-> TRUE]

AttemptOutcomes ==
    {NetError} \cup {Status(c) : c \in StatusCodes} \cup {StatusRetryAfter(413)}

NoResponse == Status(0)

\* Retry(status_forcelist=[429, 500, 502, 503, 504])
status_forcelist == {429, 500, 502, 503, 504}

\* urllib3 RETRY_AFTER_STATUS_CODES, honoured when the header is present
RetryAfterStatusCodes == {413, 429, 503}

IsRetry_AnyErrorStatus(o, t) == o.net \/ o.code >= 400

\* Retry(total=max_retries, allowed_methods=["GET", "POST"]): the request is a
\* POST, so connection errors, read errors and forcelist statuses all count
\* against total (t is what is left of it); a Retry-After status is retried
\* only while total lasts and is handed back as a response otherwise.
IsRetry(o, t) ==
    \/ o.net
    \/ o.code \in status_forcelist
    \/ o.retry_after /\ o.code \in RetryAfterStatusCodes /\ t > 0

(***************************************************************************)
(* Errors                                                                  *)
(***************************************************************************)
NoError == [type |-> "none", text |-> <<>>]

\* what requests raises once the Retry object is exhausted
TransportError(o) ==
    IF o.net THEN [type |-> "ConnectionError", text |-> <<>>]
    ELSE [type |-> "RetryError", text |-> <<>>]

HTTPError == [type |-> "HTTPError", text |-> <<>>]
JSONDecodeError == [type |-> "JSONDecodeError", text |-> <<>>]

\* Exception(f"Moodle API Error: {data.get('message', 'Unknown error')}")
MoodleAPIError(d) ==
    [type |-> "Exception",
     text |-> <<"Moodle API Error: ", DictGet(d, "message", "Unknown error")>>]

RequestExceptions == {"ConnectionError", "RetryError", "HTTPError", "JSONDecodeError"}

Returned(v) == [kind |-> "return", value |-> v, error |-> NoError]
Raised(e) == [kind |-> "raise", value |-> <<>>, error |-> e]
NoOutcome == [kind |-> "none", value |-> <<>>, error |-> NoError]

(***************************************************************************)
(* _call_api                                                               *)
(***************************************************************************)
IsMoodleError_Unchecked(b) == FALSE

\* isinstance(data, dict) and 'exception' in data
IsMoodleError(b) == b.kind = "dict" /\ HasKey(b.obj, "exception")

Normalize_AlwaysWrap(b) ==
    IF b.kind = "list" THEN <<b.elems>> ELSE <<b.obj>>

\* return data if isinstance(data, list) else [data]
Normalize(b) == IF b.kind = "list" THEN b.elems ELSE <<b.obj>>

\* the Moodle functions of get_users, get_courses, get_course_grade_items and
\* get_grades
WsFunctions ==
    {"core_user_get_users", "core_course_get_courses",
     "gradereport_user_get_grade_items", "gradereport_user_get_grades_table"}

\* the key under which the method looks for the collection in a dict result
WrapperKey ==
    ("core_user_get_users" :> "users")
    @@ ("gradereport_user_get_grade_items" :> "usergrades")
    @@ ("gradereport_user_get_grades_table" :> "tables")

\* result.get(key, []) if isinstance(result, dict) else result, for the
\* methods that unwrap; get_courses returns the result as it is
MethodResult(fn, res) ==
    IF fn \in DOMAIN WrapperKey /\ res.kind = "dict"
    THEN DictGet(res.obj, WrapperKey[fn], ListBody(<<>>))
    ELSE res

CallInit ==
    /\ max_retries \in 0..MaxRetries
    /\ rate_limit_delay \in 0..MaxDelay
    /\ pc = "idle"
    /\ total = 0
    /\ attempts = 0
    /\ retriedOn = {}
    /\ response = NoResponse
    /\ data = NoData
    /\ outcome = NoOutcome
    /\ sleeps = <<>>
    /\ log = <<>>
    /\ nCalls = 0
    /\ nReturned = 0
    /\ wsfunction = "none"
    /\ methodResult = NoData

\* _call_api is entered: the payload is built and the request is about to go out
CallApi(fn) ==
    /\ pc = "idle"
    /\ nCalls < MaxCalls
    /\ wsfunction' = fn
    /\ methodResult' = NoData
    /\ pc' = "post"
    /\ total' = max_retries
    /\ attempts' = 0
    /\ retriedOn' = {}
    /\ response' = NoResponse
    /\ data' = NoData
    /\ outcome' = NoOutcome
    /\ log' = <<>>
    /\ nCalls' = nCalls + 1
    /\ UNCHANGED <<fanVars, loadVars, cfgVars>>
    /\ UNCHANGED <<max_retries, rate_limit_delay, sleeps, nReturned>>

\* one request of session.post ends in o and the adapter retries it
PostRetry(o) ==
    /\ pc = "post"
    /\ IsRetry(o, total)
    /\ total > 0
    /\ total' = total - 1
    /\ attempts' = attempts + 1
    /\ retriedOn' = retriedOn \cup {o}
    /\ log' = log \o <<"request", "backoff">>
    /\ UNCHANGED <<fanVars, loadVars, cfgVars>>
    /\ UNCHANGED <<wsfunction, methodResult>>
    /\ UNCHANGED <<max_retries, rate_limit_delay, pc, response, data, outcome,
                   sleeps, nCalls, nReturned>>

\* one request ends in o with the Retry object exhausted: session.post raises,
\* the except clause logs and re-raises
PostExhausted(o) ==
    /\ pc = "post"
    /\ IsRetry(o, total)
    /\ total = 0
    /\ attempts' = attempts + 1
    /\ log' = log \o <<"request", "raise">>
    /\ outcome' = Raised(TransportError(o))
    /\ pc' = "idle"
    /\ UNCHANGED <<fanVars, loadVars, cfgVars>>
    /\ UNCHANGED <<wsfunction, methodResult>>
    /\ UNCHANGED <<max_retries, rate_limit_delay, total, retriedOn, response,
                   data, sleeps, nCalls, nReturned>>

\* one request ends in a response the adapter hands back
PostResponse(o) ==
    /\ pc = "post"
    /\ ~IsRetry(o, total)
    /\ attempts' = attempts + 1
    /\ response' = o
    /\ log' = log \o <<"request", "response">>
    /\ pc' = "response"
    /\ UNCHANGED <<fanVars, loadVars, cfgVars>>
    /\ UNCHANGED <<wsfunction, methodResult>>
    /\ UNCHANGED <<max_retries, rate_limit_delay, total, retriedOn, data,
                   outcome, sleeps, nCalls, nReturned>>

\* response.raise_for_status() raises on a 4xx / 5xx status
RaiseForStatus ==
    /\ pc = "response"
    /\ response.code >= 400
    /\ outcome' = Raised(HTTPError)
    /\ log' = Append(log, "raise")
    /\ pc' = "idle"
    /\ UNCHANGED <<fanVars, loadVars, cfgVars>>
    /\ UNCHANGED <<wsfunction, methodResult>>
    /\ UNCHANGED <<max_retries, rate_limit_delay, total, attempts, retriedOn,
                   response, data, sleeps, nCalls, nReturned>>

\* data = response.json() on a body that decodes to b
JsonDecoded(b) ==
    /\ pc = "response"
    /\ response.code < 400
    /\ data' = b
    /\ pc' = "decoded"
    /\ UNCHANGED <<fanVars, loadVars, cfgVars>>
    /\ UNCHANGED <<wsfunction, methodResult>>
    /\ UNCHANGED <<max_retries, rate_limit_delay, total, attempts, retriedOn,
                   response, outcome, sleeps, log, nCalls, nReturned>>

\* response.json() on a body that is no JSON
JsonFails ==
    /\ pc = "response"
    /\ response.code < 400
    /\ outcome' = Raised(JSONDecodeError)
    /\ log' = Append(log, "raise")
    /\ pc' = "idle"
    /\ UNCHANGED <<fanVars, loadVars, cfgVars>>
    /\ UNCHANGED <<wsfunction, methodResult>>
    /\ UNCHANGED <<max_retries, rate_limit_delay, total, attempts, retriedOn,
                   response, data, sleeps, nCalls, nReturned>>

RaiseMoodleError_Retried ==
    /\ pc = "decoded"
    /\ IsMoodleError(data)
    /\ total > 0
    /\ total' = total - 1
    /\ log' = Append(log, "backoff")
    /\ pc' = "post"
    /\ UNCHANGED <<fanVars, loadVars, cfgVars>>
    /\ UNCHANGED <<wsfunction, methodResult>>
    /\ UNCHANGED <<max_retries, rate_limit_delay, attempts, retriedOn, response,
                   data, outcome, sleeps, nCalls, nReturned>>

\* the body carries a Moodle error: raise Exception(...)
RaiseMoodleError ==
    /\ pc = "decoded"
    /\ IsMoodleError(data)
    /\ outcome' = Raised(MoodleAPIError(data.obj))
    /\ log' = Append(log, "raise")
    /\ pc' = "idle"
    /\ UNCHANGED <<fanVars, loadVars, cfgVars>>
    /\ UNCHANGED <<wsfunction, methodResult>>
    /\ UNCHANGED <<max_retries, rate_limit_delay, total, attempts, retriedOn,
                   response, data, sleeps, nCalls, nReturned>>

RateLimitSleep_Skipped ==
    /\ pc = "decoded"
    /\ ~IsMoodleError(data)
    /\ pc' = "return"
    /\ UNCHANGED <<fanVars, loadVars, cfgVars>>
    /\ UNCHANGED <<wsfunction, methodResult>>
    /\ UNCHANGED <<max_retries, rate_limit_delay, total, attempts, retriedOn,
                   response, data, outcome, sleeps, log, nCalls, nReturned>>

\* time.sleep(self.rate_limit_delay)
RateLimitSleep ==
    /\ pc = "decoded"
    /\ ~IsMoodleError(data)
    /\ sleeps' = Append(sleeps, rate_limit_delay)
    /\ log' = Append(log, "sleep")
    /\ pc' = "return"
    /\ UNCHANGED <<fanVars, loadVars, cfgVars>>
    /\ UNCHANGED <<wsfunction, methodResult>>
    /\ UNCHANGED <<max_retries, rate_limit_delay, total, attempts, retriedOn,
                   response, data, outcome, nCalls, nReturned>>

\* return data if isinstance(data, list) else [data]
Return ==
    /\ pc = "return"
    /\ outcome' = Returned(Normalize(data))
    /\ methodResult' = MethodResult(wsfunction, ListBody(Normalize(data)))
    /\ UNCHANGED wsfunction
    /\ log' = Append(log, "return")
    /\ nReturned' = nReturned + 1
    /\ pc' = "idle"
    /\ UNCHANGED <<fanVars, loadVars, cfgVars>>
    /\ UNCHANGED <<max_retries, rate_limit_delay, total, attempts, retriedOn,
                   response, data, sleeps, nCalls>>

CallNext ==
    \/ \E fn \in WsFunctions : CallApi(fn)
    \/ \E o \in AttemptOutcomes : PostRetry(o)
    \/ \E o \in AttemptOutcomes : PostExhausted(o)
    \/ \E o \in AttemptOutcomes : PostResponse(o)
    \/ RaiseForStatus
    \/ \E b \in Bodies : JsonDecoded(b)
    \/ JsonFails
    \/ RaiseMoodleError
    \/ RateLimitSleep
    \/ Return

(***************************************************************************)
(* Per-course fan-out: extract_enrolments, extract_enrolment_methods,      *)
(* extract_grade_items and extract_grades share one loop.                  *)
(***************************************************************************)
\* Python's None, among integer ids
None == -1

\* truth value of an id: None and 0 are falsy
Truthy(v) == v # None /\ v # 0

\* an element of a list the client returned: a mapping, or some other value
Mapping(d) == [mapping |-> TRUE, obj |-> d]
NotAMapping == [mapping |-> FALSE, obj |-> {}]

\* the course dictionaries extract_courses can have pushed
Course1 == {<<"id", 1>>}
Course2 == {<<"id", 2>>}
CourseZeroId == {<<"id", 0>>}
CourseNoId == {<<"fullname", 9>>}
CourseDicts == {Course1, Course2, CourseZeroId, CourseNoId}

RecA == Mapping({<<"id", 5>>})
RecB == Mapping({<<"id", 6>>, <<"course_id", 9>>})

\* what client.get_enrolled_users(course_id) and its like can end in
CallRaises == [made |-> TRUE, raises |-> TRUE, recs |-> <<>>]
CallGives(xs) == [made |-> TRUE, raises |-> FALSE, recs |-> xs]
NoCall == [made |-> FALSE, raises |-> FALSE, recs |-> <<>>]

CourseResults ==
    { CallRaises, CallGives(<<>>), CallGives(<<RecA>>), CallGives(<<RecB, RecA>>),
      CallGives(<<RecA, NotAMapping>>) }

\* user['course_id'] = course_id
Tag(r, course_id) ==
    Mapping({p \in r.obj : p[1] # "course_id"} \cup {<<"course_id", course_id>>})

CourseRecords_TaggedPrefix(course_id, res) ==
    LET bad == {i \in DOMAIN res.recs : ~res.recs[i].mapping}
        n == IF res.raises THEN 0
             ELSE IF bad = {} THEN Len(res.recs)
             ELSE (CHOOSE i \in bad : \A j \in bad : i <= j) - 1
    IN [i \in 1..n |-> Tag(res.recs[i], course_id)]

\* the body of the try block: the records one course adds to the aggregate.
\* The call or the tagging of a record that is no mapping raises before
\* extend() is reached, and the except clause leaves the aggregate alone.
CourseRecords(course_id, res) ==
    IF res.raises \/ \E i \in DOMAIN res.recs : ~res.recs[i].mapping
    THEN <<>>
    ELSE [i \in DOMAIN res.recs |-> Tag(res.recs[i], course_id)]

CourseFails(res) == res.raises \/ \E i \in DOMAIN res.recs : ~res.recs[i].mapping

SeqsUpTo(S, n) == UNION {[1..m -> S] : m \in 0..n}

NoFanOutcome == [kind |-> "none", pushed |-> <<>>, count |-> 0]

FanQuiet ==
    /\ courses = <<>>
    /\ fpc = "idle"
    /\ ci = 1
    /\ all_records = <<>>
    /\ fetched = <<>>
    /\ called = <<>>
    /\ errorsLogged = 0
    /\ fanOutcome = NoFanOutcome

\* the task starts with the course list extract_courses pushed
FanInit ==
    /\ courses \in SeqsUpTo(CourseDicts, MaxCourses)
    /\ fpc = "loop"
    /\ ci = 1
    /\ all_records = <<>>
    /\ fetched = <<>>
    /\ called = <<>>
    /\ errorsLogged = 0
    /\ fanOutcome = NoFanOutcome

\* one iteration of `for course in courses` on a course without a usable id
FanSkipCourse ==
    /\ fpc = "loop"
    /\ ci <= Len(courses)
    /\ ~Truthy(DictGet(courses[ci], "id", None))
    /\ fetched' = Append(fetched, NoCall)
    /\ ci' = ci + 1
    /\ UNCHANGED <<callVars, loadVars, cfgVars>>
    /\ UNCHANGED <<courses, fpc, all_records, called, errorsLogged, fanOutcome>>

FanOutCourse_ResetOnFailure(res) ==
    /\ fpc = "loop"
    /\ ci <= Len(courses)
    /\ Truthy(DictGet(courses[ci], "id", None))
    /\ LET course_id == DictGet(courses[ci], "id", None) IN
          /\ called' = Append(called, course_id)
          /\ all_records' = IF CourseFails(res) THEN <<>>
                            ELSE all_records \o CourseRecords(course_id, res)
    /\ errorsLogged' = IF CourseFails(res) THEN errorsLogged + 1 ELSE errorsLogged
    /\ fetched' = Append(fetched, res)
    /\ ci' = ci + 1
    /\ UNCHANGED <<callVars, loadVars, cfgVars>>
    /\ UNCHANGED <<courses, fpc, fanOutcome>>

\* one iteration on a course with an id: the per-course call ends in res
FanOutCourse(res) ==
    /\ fpc = "loop"
    /\ ci <= Len(courses)
    /\ Truthy(DictGet(courses[ci], "id", None))
    /\ LET course_id == DictGet(courses[ci], "id", None) IN
          /\ called' = Append(called, course_id)
          /\ all_records' = all_records \o CourseRecords(course_id, res)
    /\ errorsLogged' = IF CourseFails(res) THEN errorsLogged + 1 ELSE errorsLogged
    /\ fetched' = Append(fetched, res)
    /\ ci' = ci + 1
    /\ UNCHANGED <<callVars, loadVars, cfgVars>>
    /\ UNCHANGED <<courses, fpc, fanOutcome>>

\* after the loop: xcom_push(value=all_enrolments); return len(all_enrolments)
FanFinish ==
    /\ fpc = "loop"
    /\ ci > Len(courses)
    /\ fanOutcome' = [kind |-> "return", pushed |-> all_records,
                      count |-> Len(all_records)]
    /\ fpc' = "done"
    /\ UNCHANGED <<callVars, loadVars, cfgVars>>
    /\ UNCHANGED <<courses, ci, all_records, fetched, called, errorsLogged>>

FanNext ==
    \/ FanSkipCourse
    \/ \E res \in CourseResults : FanOutCourse(res)
    \/ FanFinish

(***************************************************************************)
(* extract_completions: one call for each enrolment extract_enrolments     *)
(* pushed                                                                  *)
(***************************************************************************)
\* the enrolment dictionaries: an enrolled user tagged with its course, and
\* some that lack one of the two ids
EnrolmentDicts ==
    { {<<"id", 5>>, <<"course_id", 1>>}, {<<"id", 6>>, <<"course_id", 2>>},
      {<<"id", 5>>}, {<<"id", 0>>, <<"course_id", 1>>} }

\* what client.get_course_completion(course_id, user_id) can end in: an
\* error, a status dictionary, or a result that is no dictionary
CompletionResults == {CallRaises, CallGives(<<RecA>>), CallGives(<<NotAMapping>>)}

\* completion['course_id'] = course_id; completion['userid'] = user_id
TagCompletion(r, course_id, user_id) ==
    Mapping({p \in r.obj : p[1] \notin {"course_id", "userid"}}
            \cup {<<"course_id", course_id>>, <<"userid", user_id>>})

\* the body of the try block: what one enrolment appends to the aggregate
CompletionRecords(course_id, user_id, res) ==
    IF CourseFails(res) THEN <<>>
    ELSE <<TagCompletion(res.recs[1], course_id, user_id)>>

\* if course_id and user_id:
HasBothIds(enrolment) ==
    /\ Truthy(DictGet(enrolment, "course_id", None))
    /\ Truthy(DictGet(enrolment, "id", None))

\* the task starts with the enrolments extract_enrolments pushed
ComplInit ==
    /\ courses \in SeqsUpTo(EnrolmentDicts, MaxCourses)
    /\ fpc = "enrolments"
    /\ ci = 1
    /\ all_records = <<>>
    /\ fetched = <<>>
    /\ called = <<>>
    /\ errorsLogged = 0
    /\ fanOutcome = NoFanOutcome

\* one iteration of `for enrolment in enrolments` without the two ids
ComplSkip ==
    /\ fpc = "enrolments"
    /\ ci <= Len(courses)
    /\ ~HasBothIds(courses[ci])
    /\ fetched' = Append(fetched, NoCall)
    /\ ci' = ci + 1
    /\ UNCHANGED <<callVars, loadVars, cfgVars>>
    /\ UNCHANGED <<courses, fpc, all_records, called, errorsLogged, fanOutcome>>

\* one iteration with both ids: the call ends in res
ComplFetch(res) ==
    /\ fpc = "enrolments"
    /\ ci <= Len(courses)
    /\ HasBothIds(courses[ci])
    /\ LET course_id == DictGet(courses[ci], "course_id", None)
           user_id == DictGet(courses[ci], "id", None)
       IN /\ called' = Append(called, course_id)
          /\ all_records' = all_records \o CompletionRecords(course_id, user_id, res)
    /\ errorsLogged' = IF CourseFails(res) THEN errorsLogged + 1 ELSE errorsLogged
    /\ fetched' = Append(fetched, res)
    /\ ci' = ci + 1
    /\ UNCHANGED <<callVars, loadVars, cfgVars>>
    /\ UNCHANGED <<courses, fpc, fanOutcome>>

\* after the loop: xcom_push(value=all_completions); return len(all_completions)
ComplFinish ==
    /\ fpc = "enrolments"
    /\ ci > Len(courses)
    /\ fanOutcome' = [kind |-> "return", pushed |-> all_records,
                      count |-> Len(all_records)]
    /\ fpc' = "completed"
    /\ UNCHANGED <<callVars, loadVars, cfgVars>>
    /\ UNCHANGED <<courses, ci, all_records, fetched, called, errorsLogged>>

\* the per-course extractions and extract_completions
FanOutNext ==
    \/ FanSkipCourse
    \/ \E res \in CourseResults : FanOutCourse(res)
    \/ FanFinish
    \/ ComplSkip
    \/ \E res \in CompletionResults : ComplFetch(res)
    \/ ComplFinish

(***************************************************************************)
(* Hashing and record preparation                                          *)
(***************************************************************************)
\* An extracted item is a dict: a sequence of <<key, value>> pairs in
\* insertion order, with integer values.
ItemGet(item, key) ==
    IF \E i \in DOMAIN item : item[i][1] = key
    THEN item[CHOOSE i \in DOMAIN item : item[i][1] = key][2]
    ELSE None

\* a or b
PyOr(a, b) == IF Truthy(a) THEN a ELSE b

Digits == <<"0", "1", "2", "3", "4", "5", "6", "7", "8", "9">>

RECURSIVE Str(_)
\* str(n) of a natural number
Str(n) == IF n < 10 THEN <<Digits[n + 1]>>
          ELSE Str(n \div 10) \o <<Digits[(n % 10) + 1]>>

\* JSON-compatible data: a number, a dict (its <<key, value>> pairs in
\* insertion order) or a list
Num(n) == [t |-> "num", n |-> n, pairs |-> <<>>, elems |-> <<>>]
Dict(pairs) == [t |-> "dict", n |-> 0, pairs |-> pairs, elems |-> <<>>]
List(elems) == [t |-> "list", n |-> 0, pairs |-> <<>>, elems |-> elems]

\* the data an extracted item is
AsJson(item) == Dict([i \in DOMAIN item |-> <<item[i][1], Num(item[i][2])>>])

\* the keys in use, in the order sort_keys=True puts them
KeyOrder == <<"course_id", "id", "metadata", "name", "userid", "username", "users">>

RECURSIVE SortKeys(_, _)
SortKeys(item, keys) ==
    IF keys = <<>> THEN <<>>
    ELSE LET here == {i \in DOMAIN item : item[i][1] = Head(keys)}
         IN (IF here = {} THEN <<>> ELSE <<item[CHOOSE i \in here : TRUE]>>)
            \o SortKeys(item, Tail(keys))

RECURSIVE JsonCommas(_)
\* ', '.join(texts)
JsonCommas(texts) ==
    IF texts = <<>> THEN <<>>
    ELSE IF Len(texts) = 1 THEN texts[1]
    ELSE texts[1] \o <<",">> \o JsonCommas(Tail(texts))

RECURSIVE JsonText(_, _)
JsonText_ShallowSort(doc, sort_keys) ==
    IF doc.t = "num" THEN Str(doc.n)
    ELSE IF doc.t = "list"
    THEN <<"[">>
         \o JsonCommas([i \in DOMAIN doc.elems |-> JsonText(doc.elems[i], FALSE)])
         \o <<"]">>
    ELSE LET pairs == IF sort_keys THEN SortKeys(doc.pairs, KeyOrder) ELSE doc.pairs
         IN <<"{">>
            \o JsonCommas([i \in DOMAIN pairs |->
                              <<pairs[i][1], ":">> \o JsonText(pairs[i][2], FALSE)])
            \o <<"}">>

\* the text json.dumps writes, token by token; sort_keys orders the pairs of
\* every dict, at every depth, by key
JsonText(doc, sort_keys) ==
    IF doc.t = "num" THEN Str(doc.n)
    ELSE IF doc.t = "list"
    THEN <<"[">>
         \o JsonCommas([i \in DOMAIN doc.elems |-> JsonText(doc.elems[i], sort_keys)])
         \o <<"]">>
    ELSE LET pairs == IF sort_keys THEN SortKeys(doc.pairs, KeyOrder) ELSE doc.pairs
         IN <<"{">>
            \o JsonCommas([i \in DOMAIN pairs |->
                              <<pairs[i][1], ":">> \o JsonText(pairs[i][2], sort_keys)])
            \o <<"}">>

\* json.dumps(data) / json.dumps(data, sort_keys=True)
JsonDumps(doc, sort_keys) == [json |-> JsonText(doc, sort_keys)]

\* hashlib.md5(json_str.encode()).hexdigest(): a digest taken as collision-free
Md5(text) == [md5 |-> text.json]

compute_hash(doc) == Md5(JsonDumps(doc, TRUE))

RECURSIVE RStrip(_, _)
\* str.rstrip(ch): every trailing ch is removed
RStrip(str, ch) ==
    IF str # <<>> /\ str[Len(str)] = ch
    THEN RStrip(SubSeq(str, 1, Len(str) - 1), ch)
    ELSE str

MOODLE_INSTANCE == <<"m", "o", "o", "d", "l", "e", "4">>

prepare_raw_record(instance, ent, moodle_id, item, utcnow) ==
    [instance |-> instance,
     entity |-> ent,
     moodle_id |-> moodle_id,
     data_json |-> JsonDumps(AsJson(item), FALSE),
     ts_extract |-> utcnow,
     hash_content |-> compute_hash(AsJson(item))]

(***************************************************************************)
(* load_raw_data                                                           *)
(***************************************************************************)
Loads == {"run1", "run2"}

\* default_args['retries']
retries == 2

EntityUsers == <<"u", "s", "e", "r", "s">>
EntityGrades == <<"g", "r", "a", "d", "e", "s">>
Entities == {EntityUsers, EntityGrades}

ItemUser1 == <<<<"id", 1>>, <<"username", 7>>>>
ItemGrade1 == <<<<"userid", 3>>, <<"course_id", 1>>>>
ItemNoId == <<<<"username", 8>>>>
Items == {ItemUser1, ItemGrade1, ItemNoId}

\* the instants successive utcnow() reads of one run can give
Instants(n) ==
    {ts \in [1..n -> now..MaxClock] : \A i \in 1..(n - 1) : ts[i] <= ts[i + 1]}

\* required_fields of validate_json_schema, by entity type
required_fields ==
    (<<"u", "s", "e", "r">> :> <<"id", "username">>)
    @@ (<<"c", "o", "u", "r", "s", "e">> :> <<"id", "fullname">>)
    @@ (<<"r", "o", "l", "e">> :> <<"id", "shortname">>)
    @@ (<<"g", "r", "a", "d", "e">> :> <<"userid", "itemid">>)
    @@ (<<"g", "r", "a", "d", "e", "_", "i", "t", "e", "m">> :> <<"id", "itemname">>)
    @@ (<<"c", "o", "m", "p", "l", "e", "t", "i", "o", "n">>
           :> <<"userid", "completionstate">>)

\* field in data
HasField(item, field) == \E i \in DOMAIN item : item[i][1] = field

ValidationPasses == [raises |-> FALSE, field |-> "none"]
ValueError(field) == [raises |-> TRUE, field |-> field]

\* returns True, or raises the ValueError that names the first required field
\* the item lacks
validate_json_schema(item, ent) ==
    IF ent \in DOMAIN required_fields
    THEN LET Missing(field) == ~HasField(item, field)
             missing == SelectSeq(required_fields[ent], Missing)
         IN IF missing = <<>> THEN ValidationPasses ELSE ValueError(Head(missing))
    ELSE ValidationPasses

\* the logger.warning calls of the loop `for item in data`: one for each item
\* whose validation raises, in order
ValidationWarnings(ent, items) ==
    LET Raises(v) == v.raises
    IN SelectSeq([i \in DOMAIN items |->
                     validate_json_schema(items[i], RStrip(ent, "s"))], Raises)

PrepareRecords_SkipInvalid(ent, items, ts) ==
    LET Valid(e) == ~e.v.raises
        all == [i \in DOMAIN items |->
                  [v |-> validate_json_schema(items[i], RStrip(ent, "s")),
                   rec |-> prepare_raw_record(MOODLE_INSTANCE, RStrip(ent, "s"),
                               PyOr(ItemGet(items[i], "id"),
                                    ItemGet(items[i], "course_id")),
                               items[i], ts[i])]]
        kept == SelectSeq(all, Valid)
    IN [i \in DOMAIN kept |-> kept[i].rec]

\* the loop `for item in data` of load_raw_data: the outcome of the validation
\* has no part in the record
PrepareRecords(ent, items, ts) ==
    [i \in DOMAIN items |->
        prepare_raw_record(MOODLE_INSTANCE, RStrip(ent, "s"),
                           PyOr(ItemGet(items[i], "id"), ItemGet(items[i], "course_id")),
                           items[i], ts[i])]

\* the unique key of moodle_raw over the nullable column moodle_id: two
\* values of the column count as equal; a NULL equals another NULL only when
\* the key does not treat NULLs as distinct
KeyColumnEqual(a, b) ==
    IF a = None \/ b = None THEN a = b /\ ~nullsDistinct ELSE a = b

\* ON CONFLICT (instance, entity, moodle_id, ts_extract): r collides with a
\* stored row
Conflicts(r, row) ==
    /\ r.instance = row.instance
    /\ r.entity = row.entity
    /\ r.ts_extract = row.ts_extract
    /\ KeyColumnEqual(r.moodle_id, row.moodle_id)

Visible(p) == BagToSet(moodle_raw) \cup BagToSet(txn[p])

InFlight_Unseen(p) == {}

\* the rows other open transactions have inserted and not yet committed
InFlight(p) == UNION {BagToSet(txn[q]) : q \in Loads \ {p}}

LoadReturned(n) == [kind |-> "return", count |-> n, error |-> "none"]
LoadRaised(e) == [kind |-> "raise", count |-> 0, error |-> e]
NoLoadResult == [kind |-> "none", count |-> 0, error |-> "none"]

LoadQuiet ==
    /\ nullsDistinct = TRUE
    /\ now = 0
    /\ xcom = <<>>
    /\ moodle_raw = EmptyBag
    /\ lpc = [p \in Loads |-> "idle"]
    /\ entity = [p \in Loads |-> EntityUsers]
    /\ records = [p \in Loads |-> <<>>]
    /\ k = [p \in Loads |-> 1]
    /\ txn = [p \in Loads |-> EmptyBag]
    /\ conn = [p \in Loads |-> "none"]
    /\ result = [p \in Loads |-> NoLoadResult]
    /\ tries = [p \in Loads |-> 0]
    /\ nAttempts = 0
    /\ warnings = [p \in Loads |-> <<>>]

\* the extraction task has pushed its batch; the table is empty
LoadInit ==
    /\ nullsDistinct \in BOOLEAN
    /\ now = 0
    /\ xcom \in SeqsUpTo(Items, MaxBatch)
    /\ moodle_raw = EmptyBag
    /\ lpc = [p \in Loads |-> "idle"]
    /\ \E ent \in Entities : entity = [run1 |-> EntityUsers, run2 |-> ent]
    /\ records = [p \in Loads |-> <<>>]
    /\ k = [p \in Loads |-> 1]
    /\ txn = [p \in Loads |-> EmptyBag]
    /\ conn = [p \in Loads |-> "none"]
    /\ result = [p \in Loads |-> NoLoadResult]
    /\ tries = [p \in Loads |-> 0]
    /\ nAttempts = 0
    /\ warnings = [p \in Loads |-> <<>>]

\* a run of the load task may start: its first attempt, or the scheduler's
\* retry of a failed one.  Of two runs of the same task, run1 names the one
\* that starts first.
MayStart(p) ==
    /\ nAttempts < MaxAttempts
    /\ \/ lpc[p] = "idle"
       \/ lpc[p] = "failed" /\ tries[p] <= retries
    /\ (p = "run2" /\ entity["run2"] = entity["run1"]) => tries["run1"] > 0

\* load_raw_data with nothing to load: `if not data: return 0`
LoadNothing(p) ==
    /\ MayStart(p)
    /\ xcom = <<>>
    /\ lpc' = [lpc EXCEPT ![p] = "done"]
    /\ result' = [result EXCEPT ![p] = LoadReturned(0)]
    /\ tries' = [tries EXCEPT ![p] = @ + 1]
    /\ nAttempts' = nAttempts + 1
    /\ UNCHANGED <<warnings, nullsDistinct, now, xcom, moodle_raw, entity, records, k, txn,
                   conn>>
    /\ UNCHANGED <<callVars, fanVars, cfgVars>>

\* load_raw_data up to the insert loop: the records are prepared, each stamped
\* with the instant utcnow() gives, and the connection and cursor are opened
LoadStart(p, ts) ==
    /\ MayStart(p)
    /\ xcom # <<>>
    /\ records' = [records EXCEPT ![p] = PrepareRecords(entity[p], xcom, ts)]
    /\ now' = ts[Len(ts)]
    /\ k' = [k EXCEPT ![p] = 1]
    /\ txn' = [txn EXCEPT ![p] = EmptyBag]
    /\ conn' = [conn EXCEPT ![p] = "open"]
    /\ result' = [result EXCEPT ![p] = NoLoadResult]
    /\ lpc' = [lpc EXCEPT ![p] = "insert"]
    /\ tries' = [tries EXCEPT ![p] = @ + 1]
    /\ nAttempts' = nAttempts + 1
    /\ warnings' = [warnings EXCEPT ![p] = ValidationWarnings(entity[p], xcom)]
    /\ UNCHANGED <<nullsDistinct, xcom, moodle_raw, entity>>
    /\ UNCHANGED <<callVars, fanVars, cfgVars>>

LoadInsert_Autocommit(p) ==
    /\ lpc[p] = "insert"
    /\ k[p] <= Len(records[p])
    /\ LET r == records[p][k[p]] IN
          moodle_raw' = IF \E row \in BagToSet(moodle_raw) : Conflicts(r, row)
                        THEN moodle_raw ELSE moodle_raw (+) SetToBag({r})
    /\ k' = [k EXCEPT ![p] = @ + 1]
    /\ UNCHANGED <<warnings, nullsDistinct, now, xcom, lpc, entity, records, txn, conn,
                   result, tries, nAttempts>>
    /\ UNCHANGED <<callVars, fanVars, cfgVars>>

\* cursor.execute(insert_sql, ...) of the next record: the row joins the open
\* transaction, or nothing happens when its key is taken.  While another
\* open transaction holds the key the statement waits.
LoadInsert(p) ==
    /\ lpc[p] = "insert"
    /\ k[p] <= Len(records[p])
    /\ LET r == records[p][k[p]] IN
          /\ ~\E row \in InFlight(p) : Conflicts(r, row)
          /\ txn' = [txn EXCEPT ![p] =
                        IF \E row \in Visible(p) : Conflicts(r, row)
                        THEN @ ELSE @ (+) SetToBag({r})]
    /\ k' = [k EXCEPT ![p] = @ + 1]
    /\ UNCHANGED <<warnings, nullsDistinct, now, xcom, moodle_raw, lpc, entity, records,
                   conn, result, tries, nAttempts>>
    /\ UNCHANGED <<callVars, fanVars, cfgVars>>

\* cursor.execute raises.  except: conn.rollback(), the error is logged and
\* re-raised; finally: cursor.close(), conn.close().  The raise ends the life
\* of the prepared records; k stays at the insert that raised.
LoadInsertRaises(p) ==
    /\ lpc[p] = "insert"
    /\ k[p] <= Len(records[p])
    /\ txn' = [txn EXCEPT ![p] = EmptyBag]
    /\ conn' = [conn EXCEPT ![p] = "closed"]
    /\ result' = [result EXCEPT ![p] = LoadRaised("insert")]
    /\ lpc' = [lpc EXCEPT ![p] = "failed"]
    /\ records' = [records EXCEPT ![p] = <<>>]
    /\ UNCHANGED <<warnings, nullsDistinct, now, xcom, moodle_raw, entity, k, tries,
                   nAttempts>>
    /\ UNCHANGED <<callVars, fanVars, cfgVars>>

LoadCommit_LeavesOpen(p) ==
    /\ lpc[p] = "insert"
    /\ k[p] > Len(records[p])
    /\ moodle_raw' = moodle_raw (+) txn[p]
    /\ txn' = [txn EXCEPT ![p] = EmptyBag]
    /\ result' = [result EXCEPT ![p] = LoadReturned(Len(records[p]))]
    /\ lpc' = [lpc EXCEPT ![p] = "done"]
    /\ records' = [records EXCEPT ![p] = <<>>]
    /\ UNCHANGED <<warnings, nullsDistinct, now, xcom, entity, k, tries, nAttempts, conn>>
    /\ UNCHANGED <<callVars, fanVars, cfgVars>>

LoadCommit_Overwrite(p) ==
    /\ lpc[p] = "insert"
    /\ k[p] > Len(records[p])
    /\ LET SameEntityId(a, b) == /\ a.instance = b.instance
                                 /\ a.entity = b.entity
                                 /\ a.moodle_id = b.moodle_id
           kept == {row \in BagToSet(moodle_raw) :
                       ~\E r \in BagToSet(txn[p]) : SameEntityId(r, row)}
       IN moodle_raw' = [row \in kept |-> CopiesIn(row, moodle_raw)] (+) txn[p]
    /\ txn' = [txn EXCEPT ![p] = EmptyBag]
    /\ conn' = [conn EXCEPT ![p] = "closed"]
    /\ result' = [result EXCEPT ![p] = LoadReturned(Len(records[p]))]
    /\ lpc' = [lpc EXCEPT ![p] = "done"]
    /\ records' = [records EXCEPT ![p] = <<>>]
    /\ UNCHANGED <<warnings, nullsDistinct, now, xcom, entity, k, tries, nAttempts>>
    /\ UNCHANGED <<callVars, fanVars, cfgVars>>

\* conn.commit() after the last insert; the count is logged; finally:
\* cursor.close(), conn.close(); return len(records)
LoadCommit(p) ==
    /\ lpc[p] = "insert"
    /\ k[p] > Len(records[p])
    /\ moodle_raw' = moodle_raw (+) txn[p]
    /\ txn' = [txn EXCEPT ![p] = EmptyBag]
    /\ conn' = [conn EXCEPT ![p] = "closed"]
    /\ result' = [result EXCEPT ![p] = LoadReturned(Len(records[p]))]
    /\ lpc' = [lpc EXCEPT ![p] = "done"]
    /\ records' = [records EXCEPT ![p] = <<>>]
    /\ UNCHANGED <<warnings, nullsDistinct, now, xcom, entity, k, tries, nAttempts>>
    /\ UNCHANGED <<callVars, fanVars, cfgVars>>

\* conn.commit() raises and nothing was committed.  except: conn.rollback(),
\* re-raise; finally: cursor.close(), conn.close().
LoadCommitRaises(p) ==
    /\ lpc[p] = "insert"
    /\ k[p] > Len(records[p])
    /\ txn' = [txn EXCEPT ![p] = EmptyBag]
    /\ conn' = [conn EXCEPT ![p] = "closed"]
    /\ result' = [result EXCEPT ![p] = LoadRaised("commit")]
    /\ lpc' = [lpc EXCEPT ![p] = "failed"]
    /\ records' = [records EXCEPT ![p] = <<>>]
    /\ UNCHANGED <<warnings, nullsDistinct, now, xcom, moodle_raw, entity, k, tries,
                   nAttempts>>
    /\ UNCHANGED <<callVars, fanVars, cfgVars>>

\* conn.commit() took effect in the database and the attempt fails after it
\* (the acknowledgement is lost, or the task dies before it reports success):
\* the rollback has nothing left to undo and the scheduler sees a failure
LoadFailsAfterCommit(p) ==
    /\ lpc[p] = "insert"
    /\ k[p] > Len(records[p])
    /\ moodle_raw' = moodle_raw (+) txn[p]
    /\ txn' = [txn EXCEPT ![p] = EmptyBag]
    /\ conn' = [conn EXCEPT ![p] = "closed"]
    /\ result' = [result EXCEPT ![p] = LoadRaised("after commit")]
    /\ lpc' = [lpc EXCEPT ![p] = "failed"]
    /\ records' = [records EXCEPT ![p] = <<>>]
    /\ UNCHANGED <<warnings, nullsDistinct, now, xcom, entity, k, tries, nAttempts>>
    /\ UNCHANGED <<callVars, fanVars, cfgVars>>

LoadNext ==
    \E p \in Loads :
        \/ LoadNothing(p)
        \/ \E ts \in Instants(Len(xcom)) : LoadStart(p, ts)
        \/ LoadInsert(p)
        \/ LoadInsertRaises(p)
        \/ LoadCommit(p)
        \/ LoadCommitRaises(p)
        \/ LoadFailsAfterCommit(p)

(***************************************************************************)
(* Strings: a str is a sequence of characters                              *)
(***************************************************************************)
Whitespace == {" ", "\t", "\n"}

RECURSIVE LStripWs(_)
LStripWs(str) ==
    IF str # <<>> /\ Head(str) \in Whitespace THEN LStripWs(Tail(str)) ELSE str

RECURSIVE RStripWs(_)
RStripWs(str) ==
    IF str # <<>> /\ str[Len(str)] \in Whitespace
    THEN RStripWs(SubSeq(str, 1, Len(str) - 1))
    ELSE str

Strip_LeftOnly(str) == LStripWs(str)

\* str.strip()
Strip(str) == RStripWs(LStripWs(str))

LowerChar(c) ==
    CASE c = "F" -> "f" [] c = "H" -> "h" [] c = "P" -> "p"
      [] c = "S" -> "s" [] c = "T" -> "t" [] OTHER -> c

\* str.lower()
Lower(str) == [i \in DOMAIN str |-> LowerChar(str[i])]

\* str.startswith(prefix)
StartsWith(str, prefix) ==
    Len(str) >= Len(prefix) /\ SubSeq(str, 1, Len(prefix)) = prefix

RECURSIVE Split(_, _)
\* str.split(sep): the pieces between the separators, empty ones included
Split(str, sep) ==
    IF \E i \in DOMAIN str : str[i] = sep
    THEN LET i == CHOOSE n \in DOMAIN str :
                     str[n] = sep /\ \A m \in 1..(n - 1) : str[m] # sep
         IN <<SubSeq(str, 1, i - 1)>> \o Split(SubSeq(str, i + 1, Len(str)), sep)
    ELSE <<str>>

(***************************************************************************)
(* MoodleAPIClient._validate_url and MoodleAPIClient.__init__               *)
(***************************************************************************)
MIN_HTTPS_URL_LENGTH == 12

SchemeHttp == <<"h", "t", "t", "p", ":", "/", "/">>
SchemeHttps == <<"h", "t", "t", "p", "s", ":", "/", "/">>

UrlValid(url, notice) == [raises |-> FALSE, error |-> "none", url |-> url,
                          notice |-> notice]
UrlError(msg, url, notice) == [raises |-> TRUE, error |-> msg, url |-> url,
                               notice |-> notice]

IsInsecure_CaseSensitive(url) == StartsWith(url, SchemeHttp)

\* url.lower().startswith('http://')
IsInsecure(url) == StartsWith(Lower(url), SchemeHttp)

\* the validated URL, or the ValueError raised; notice tells whether
\* "Added https:// protocol to URL" was logged on the way
_validate_url(raw) ==
    IF raw = <<>> THEN UrlError("Moodle URL cannot be empty", raw, FALSE)
    ELSE LET url == Strip(raw) IN
         IF IsInsecure(url)
         THEN UrlError("Insecure HTTP protocol detected", url, FALSE)
         ELSE LET add == ~StartsWith(Lower(url), SchemeHttps)
                  withScheme == IF add THEN SchemeHttps \o url ELSE url
                  stripped == RStrip(withScheme, "/")
              IN IF ~StartsWith(stripped, SchemeHttps)
                    \/ Len(stripped) < MIN_HTTPS_URL_LENGTH
                 THEN UrlError("Invalid Moodle URL format", stripped, add)
                 ELSE UrlValid(stripped, add)

(***************************************************************************)
(* parse_moodle_config and get_moodle_instance_config                      *)
(***************************************************************************)
NoConfig == [url |-> <<>>, token |-> <<>>, instance |-> <<>>]

ParseError(msg) == [raises |-> TRUE, error |-> msg, configs |-> <<>>,
                    config |-> NoConfig, available |-> <<>>]
Parsed(configs) == [raises |-> FALSE, error |-> "none", configs |-> configs,
                    config |-> NoConfig, available |-> <<>>]
Resolved(config) == [raises |-> FALSE, error |-> "none", configs |-> <<>>,
                     config |-> config, available |-> <<>>]
NotFound(names) == [raises |-> TRUE, error |-> "Instance not found in configuration",
                    configs |-> <<>>, config |-> NoConfig, available |-> names]
NotParsed == [raises |-> FALSE, error |-> "none", configs |-> <<>>,
              config |-> NoConfig, available |-> <<>>]

Entries_KeepEmpty(str) ==
    LET pieces == Split(str, ",") IN [i \in DOMAIN pieces |-> Strip(pieces[i])]

\* [x.strip() for x in str.split(',') if x.strip()]
Entries(str) ==
    LET pieces == Split(str, ",")
        NonEmpty(x) == x # <<>>
    IN SelectSeq([i \in DOMAIN pieces |-> Strip(pieces[i])], NonEmpty)

InstanceLabel_ZeroBased(i) == <<"m", "o", "o", "d", "l", "e">> \o Str(i)

\* f'moodle{i+1}' for the index i enumerate gives, which starts at 0
InstanceLabel(i) == <<"m", "o", "o", "d", "l", "e">> \o Str(i + 1)

parse_moodle_config(urls_str, tokens_str) ==
    IF urls_str = <<>> \/ tokens_str = <<>>
    THEN ParseError("Both URLs and tokens must be provided")
    ELSE LET urls == Entries(urls_str)
             tokens == Entries(tokens_str)
         IN IF Len(urls) # Len(tokens)
            THEN ParseError("Number of URLs must match number of tokens")
            ELSE IF urls = <<>>
            THEN ParseError("At least one Moodle URL and token must be provided")
            ELSE IF \E i \in DOMAIN urls : urls[i] = <<>> \/ tokens[i] = <<>>
            THEN ParseError("Empty URL or token at position")
            ELSE Parsed([i \in DOMAIN urls |->
                            [url |-> urls[i], token |-> tokens[i],
                             instance |-> InstanceLabel(i - 1)]])

get_moodle_instance_config_Positional(wanted, urls_str, tokens_str) ==
    LET parsed == parse_moodle_config(urls_str, tokens_str) IN
    IF parsed.raises THEN parsed ELSE Resolved(parsed.configs[1])

\* the first parsed config whose instance name is the wanted one
get_moodle_instance_config(wanted, urls_str, tokens_str) ==
    LET parsed == parse_moodle_config(urls_str, tokens_str) IN
    IF parsed.raises THEN parsed
    ELSE LET hits == {i \in DOMAIN parsed.configs :
                         parsed.configs[i].instance = wanted}
         IN IF hits # {}
            THEN Resolved(parsed.configs[CHOOSE i \in hits : \A j \in hits : i <= j])
            ELSE NotFound([i \in DOMAIN parsed.configs |->
                              parsed.configs[i].instance])

(***************************************************************************)
(* Construction of a client: MoodleAPIClient(base_url, token)              *)
(***************************************************************************)
NoClient == [built |-> FALSE, base_url |-> <<>>, token |-> <<>>]
Client(url, tok) == [built |-> TRUE, base_url |-> url, token |-> tok]
NotValidated == [raises |-> FALSE, error |-> "none", url |-> <<>>, notice |-> FALSE]

SchemesIn ==
    { <<>>, SchemeHttps, SchemeHttp,
      <<"H", "T", "T", "P", "S", ":", "/", "/">>,
      <<"H", "T", "T", "P", ":", "/", "/">>,
      <<"H", "t", "t", "p", ":", "/", "/">>,
      <<"f", "t", "p", ":", "/", "/">> }
HostsIn ==
    { <<>>, <<"a", ".", "c">>, <<"a", ".", "c", "o">>, <<"x", ".", "c", "o", "m">>,
      <<"s", ".", "a", ".", "c", "o">> }
TailsIn ==
    { <<>>, <<"/">>, <<"/", "/">>, <<"/", "m">>, <<":", "8">>, <<"/", "m", "/">> }
LeadIn == { <<>>, <<" ">> }
TrailIn == { <<>>, <<" ">>, <<"\n">> }

\* the base_url arguments a client is constructed with
UrlInputs ==
    { lead \o scheme \o host \o tail \o trail :
        lead \in LeadIn, scheme \in SchemesIn, host \in HostsIn,
        tail \in TailsIn, trail \in TrailIn }

TokenInputs == { <<>>, <<"t">> }

CtorQuiet ==
    /\ urlIn = <<>>
    /\ tokenIn = <<>>
    /\ cpc = "none"
    /\ client = NoClient
    /\ ctorResult = NotValidated

\* MoodleAPIClient(base_url=urlIn, token=tokenIn) is about to run
CtorInit ==
    /\ urlIn \in UrlInputs
    /\ tokenIn \in TokenInputs
    /\ cpc = "new"
    /\ client = NoClient
    /\ ctorResult = NotValidated

\* __init__ runs through: the validated URL and the token are stored and the
\* session is set up
Construct ==
    /\ cpc = "new"
    /\ ~_validate_url(urlIn).raises
    /\ ctorResult' = _validate_url(urlIn)
    /\ client' = Client(_validate_url(urlIn).url, tokenIn)
    /\ cpc' = "built"
    /\ UNCHANGED <<urlIn, tokenIn>>
    /\ UNCHANGED <<parseVars, taskVars>>
    /\ UNCHANGED <<callVars, fanVars, loadVars, auxVars>>

\* _validate_url raises in the first statement of __init__: no client
ConstructRaises ==
    /\ cpc = "new"
    /\ _validate_url(urlIn).raises
    /\ ctorResult' = _validate_url(urlIn)
    /\ cpc' = "failed"
    /\ UNCHANGED <<urlIn, tokenIn, client>>
    /\ UNCHANGED <<parseVars, taskVars>>
    /\ UNCHANGED <<callVars, fanVars, loadVars, auxVars>>

CtorNext == Construct \/ ConstructRaises

(***************************************************************************)
(* Calls of parse_moodle_config and get_moodle_instance_config             *)
(***************************************************************************)
RECURSIVE Join(_, _)
\* sep.join(pieces)
Join(pieces, sep) ==
    IF pieces = <<>> THEN <<>>
    ELSE IF Len(pieces) = 1 THEN pieces[1]
    ELSE pieces[1] \o <<sep>> \o Join(Tail(pieces), sep)

UrlEntries == { <<"a", ".", "c", "o">>, <<" ", "x", ".", "c", "o">>, <<>> }
TokenEntries == { <<"t">>, <<"u", " ">>, <<" ">> }

\* comma-separated lists of up to MaxEntries entries, and the empty string
CsvInputs(entries) ==
    {<<>>} \cup {Join(pieces, ",") : pieces \in SeqsUpTo(entries, MaxEntries) \ {<<>>}}

WantedInputs ==
    { InstanceLabel(0), InstanceLabel(2), MOODLE_INSTANCE,
      <<"i", "n", "s", "t", "a", "n", "c", "e", "1">> }

ParseQuiet ==
    /\ urlsIn = <<>>
    /\ tokensIn = <<>>
    /\ wantedIn = <<>>
    /\ ppc = "none"
    /\ parseResult = NotParsed
    /\ resolveResult = NotParsed

ParseInit ==
    /\ urlsIn \in CsvInputs(UrlEntries)
    /\ tokensIn \in CsvInputs(TokenEntries)
    /\ wantedIn \in WantedInputs
    /\ ppc = "new"
    /\ parseResult = NotParsed
    /\ resolveResult = NotParsed

\* parse_moodle_config(urlsIn, tokensIn) is called
ParseConfig ==
    /\ ppc = "new"
    /\ parseResult' = parse_moodle_config(urlsIn, tokensIn)
    /\ ppc' = "parsed"
    /\ UNCHANGED <<urlsIn, tokensIn, wantedIn, resolveResult>>
    /\ UNCHANGED <<ctorVars, taskVars>>
    /\ UNCHANGED <<callVars, fanVars, loadVars, auxVars>>

\* get_moodle_instance_config(wantedIn, urlsIn, tokensIn) is called
ResolveInstance ==
    /\ ppc = "parsed"
    /\ resolveResult' = get_moodle_instance_config(wantedIn, urlsIn, tokensIn)
    /\ ppc' = "resolved"
    /\ UNCHANGED <<urlsIn, tokensIn, wantedIn, parseResult>>
    /\ UNCHANGED <<ctorVars, taskVars>>
    /\ UNCHANGED <<callVars, fanVars, loadVars, auxVars>>

ParseNext == ParseConfig \/ ResolveInstance

(***************************************************************************)
(* An extraction task up to its first request: get_moodle_client() and the *)
(* call of the client (extract_users and every other extract_* task)       *)
(***************************************************************************)
\* an Airflow Variable: set to a value, or not set (Variable.get raises KeyError)
Var(v) == [set |-> TRUE, value |-> v]
Unset == [set |-> FALSE, value |-> <<>>]

UrlGood == SchemeHttps \o <<"a", ".", "c", "o">>
UrlBare == <<"a", ".", "c", "o">>
UrlHttp == SchemeHttp \o <<"a", ".", "c", "o">>
UrlShort == <<"a", ".", "c">>

Csv(pieces) == Join(pieces, ",")

StoreUrl == {Unset, Var(UrlGood), Var(UrlBare), Var(UrlHttp), Var(UrlShort), Var(<<>>)}
StoreToken == {Unset, Var(<<"t">>), Var(<<>>)}
StoreUrls ==
    {Unset, Var(<<>>), Var(UrlGood),
     Var(Csv(<<UrlGood, UrlGood, UrlGood, UrlBare>>)),
     Var(Csv(<<UrlGood, UrlGood, UrlGood, UrlHttp>>))}
StoreTokens ==
    {Unset, Var(<<>>), Var(<<"t">>), Var(Csv(<<<<"t">>, <<"t">>, <<"t">>, <<"u">>>>))}

NoTaskError == "none"

TaskQuiet ==
    /\ store = [url |-> Unset, token |-> Unset, urls |-> Unset, tokens |-> Unset]
    /\ tpc = "none"
    /\ requests = <<>>
    /\ asked = <<>>
    /\ taskError = NoTaskError

TaskInit ==
    /\ store \in [url : StoreUrl, token : StoreToken, urls : StoreUrls,
                  tokens : StoreTokens]
    /\ tpc = "start"
    /\ requests = <<>>
    /\ asked = <<>>
    /\ taskError = NoTaskError

\* both individual variables are set
Individual == store.url.set /\ store.token.set

\* get_moodle_client: Variable.get of <instance>_url and <instance>_token
\* succeed; MoodleAPIClient(base_url, token) is about to be constructed
ReadIndividual ==
    /\ tpc = "start"
    /\ Individual
    /\ urlIn' = store.url.value
    /\ tokenIn' = store.token.value
    /\ cpc' = "new"
    /\ tpc' = "construct"
    /\ UNCHANGED <<client, ctorResult, store, requests, asked, taskError>>
    /\ UNCHANGED parseVars
    /\ UNCHANGED <<callVars, fanVars, loadVars, auxVars>>

\* get_moodle_client: an individual variable is missing (KeyError); the
\* comma-separated lists are read and the config of MOODLE_INSTANCE is found
ReadFallback ==
    /\ tpc = "start"
    /\ ~Individual
    /\ store.urls.set /\ store.tokens.set
    /\ LET r == get_moodle_instance_config(MOODLE_INSTANCE, store.urls.value,
                                           store.tokens.value)
       IN /\ ~r.raises
          /\ urlIn' = r.config.url
          /\ tokenIn' = r.config.token
    /\ cpc' = "new"
    /\ tpc' = "construct"
    /\ UNCHANGED <<client, ctorResult, store, requests, asked, taskError>>
    /\ UNCHANGED parseVars
    /\ UNCHANGED <<callVars, fanVars, loadVars, auxVars>>

\* get_moodle_client: get_moodle_instance_config raises its ValueError, which
\* leaves the task
ReadFallbackRaises ==
    /\ tpc = "start"
    /\ ~Individual
    /\ store.urls.set /\ store.tokens.set
    /\ LET r == get_moodle_instance_config(MOODLE_INSTANCE, store.urls.value,
                                           store.tokens.value)
       IN /\ r.raises
          /\ taskError' = r.error
    /\ tpc' = "failed"
    /\ UNCHANGED <<store, requests, asked>>
    /\ UNCHANGED <<ctorVars, parseVars>>
    /\ UNCHANGED <<callVars, fanVars, loadVars, auxVars>>

\* get_moodle_client: MOODLE_URLS or MOODLE_TOKENS is missing too (KeyError):
\* ValueError("Missing Moodle configuration ...")
ConfigMissing ==
    /\ tpc = "start"
    /\ ~Individual
    /\ ~(store.urls.set /\ store.tokens.set)
    /\ taskError' = "Missing Moodle configuration"
    /\ tpc' = "failed"
    /\ UNCHANGED <<store, requests, asked>>
    /\ UNCHANGED <<ctorVars, parseVars>>
    /\ UNCHANGED <<callVars, fanVars, loadVars, auxVars>>

\* payload.update(params): the pairs of e, and the pairs of d under other keys
Update(d, e) == {p \in d : ~HasKey(e, p[1])} \cup e

ServerPath ==
    <<"/", "w", "e", "b", "s", "e", "r", "v", "i", "c", "e", "/", "r", "e", "s", "t",
      "/", "s", "e", "r", "v", "e", "r", ".", "p", "h", "p">>

Payload_FixedOnly(cl, fn, params) ==
    {<<"wstoken", cl.token>>, <<"wsfunction", <<fn>>>>,
     <<"moodlewsrestformat", <<"json">>>>}

\* the form fields of _call_api: the three fixed fields, then
\* `if params: payload.update(params)`
Payload(cl, fn, params) ==
    LET payload == {<<"wstoken", cl.token>>, <<"wsfunction", <<fn>>>>,
                    <<"moodlewsrestformat", <<"json">>>>}
    IN IF params # {} THEN Update(payload, params) ELSE payload

\* self.session.post(url, data=payload, timeout=self.timeout)
Request(cl, fn, params) ==
    [method |-> "POST", url |-> cl.base_url \o ServerPath,
     fields |-> Payload(cl, fn, params)]

\* the params a caller hands to _call_api: none, those of the methods, and
\* some that use the name of a fixed field
ParamInputs ==
    { {},
      {<<"courseid", <<"1">>>>},
      {<<"courseid", <<"1">>>>, <<"userid", <<"2">>>>},
      {<<"criteria[0][key]", <<"email">>>>, <<"criteria[0][value]", <<"a@b">>>>},
      {<<"courseid", <<"1">>>>, <<"wstoken", <<"x">>>>},
      {<<"wsfunction", <<"core_course_get_courses">>>>} }

\* the task calls the client it was given (client.get_users() and the like),
\* which calls _call_api: the request goes out
ExtractCall ==
    /\ tpc = "construct"
    /\ cpc = "built"
    /\ \E fn \in WsFunctions, params \in ParamInputs :
          /\ requests' = Append(requests, Request(client, fn, params))
          /\ asked' = Append(asked, [function |-> fn, params |-> params])
    /\ tpc' = "called"
    /\ UNCHANGED <<store, taskError>>
    /\ UNCHANGED <<ctorVars, parseVars>>
    /\ UNCHANGED <<callVars, fanVars, loadVars, auxVars>>

TaskNext ==
    \/ ReadIndividual
    \/ ReadFallback
    \/ ReadFallbackRaises
    \/ ConfigMissing
    \/ Construct
    \/ ConstructRaises
    \/ ExtractCall

(***************************************************************************)
(* Calls of compute_hash on nested data                                    *)
(***************************************************************************)
\* dicts of up to MaxKeys pairs with distinct keys, in every insertion order
DictsOver(keys, values) ==
    UNION {{Dict(ps) : ps \in {f \in [1..m -> keys \X values] :
                                  \A i \in 1..m, j \in 1..m : i # j => f[i][1] # f[j][1]}}
           : m \in 0..MaxKeys}

InnerDocs == DictsOver({"id", "name"}, {Num(1)})

MiddleDocs ==
    {Num(1), Num(2)} \cup InnerDocs \cup {List(<<x>>) : x \in InnerDocs}

\* a dict whose values are numbers, dicts and lists of dicts
Docs == DictsOver({"id", "metadata", "users"}, MiddleDocs)

RECURSIVE Swaps(_)
\* the data with two neighbouring pairs of one of its dicts, at any depth,
\* inserted the other way round
Swaps(doc) ==
    IF doc.t = "num" THEN {}
    ELSE IF doc.t = "list"
    THEN UNION {{List([doc.elems EXCEPT ![i] = e]) : e \in Swaps(doc.elems[i])}
                : i \in DOMAIN doc.elems}
    ELSE {Dict([doc.pairs EXCEPT ![i] = doc.pairs[i + 1], ![i + 1] = doc.pairs[i]])
             : i \in 1..(Len(doc.pairs) - 1)}
         \cup UNION {{Dict([doc.pairs EXCEPT ![i] = <<doc.pairs[i][1], e>>])
                        : e \in Swaps(doc.pairs[i][2])}
                     : i \in DOMAIN doc.pairs}

NoDigest == [md5 |-> <<>>]

HashQuiet ==
    /\ d1 = Num(0)
    /\ d2 = Num(0)
    /\ hpc = "none"
    /\ digest1 = NoDigest
    /\ digest2 = NoDigest

HashInit ==
    /\ d1 \in Docs
    /\ d2 = d1
    /\ hpc = "new"
    /\ digest1 = NoDigest
    /\ digest2 = NoDigest

\* the caller builds the same data with its keys in another order
Reorder ==
    /\ hpc = "new"
    /\ d2' \in Swaps(d2)
    /\ UNCHANGED <<d1, hpc, digest1, digest2>>
    /\ UNCHANGED <<coreVars, prepVars, dagVars>>

\* compute_hash(d1) and compute_hash(d2) are called
ComputeHash ==
    /\ hpc = "new"
    /\ digest1' = compute_hash(d1)
    /\ digest2' = compute_hash(d2)
    /\ hpc' = "hashed"
    /\ UNCHANGED <<d1, d2>>
    /\ UNCHANGED <<coreVars, prepVars, dagVars>>

HashNext == Reorder \/ ComputeHash

(***************************************************************************)
(* Calls of prepare_raw_record: by a caller of its own, and by              *)
(* load_raw_data                                                           *)
(***************************************************************************)
EntityCourses == <<"c", "o", "u", "r", "s", "e", "s">>

\* the entity labels of the load tasks, in the plural
PluralLabels == {EntityUsers, EntityGrades, EntityCourses}

SingularLabels ==
    { <<"u", "s", "e", "r">>, <<"g", "r", "a", "d", "e">>, <<"c", "o", "u", "r", "s", "e">> }

NoRecord == [instance |-> <<>>, entity |-> <<>>, moodle_id |-> None,
             data_json |-> [json |-> <<>>], ts_extract |-> 0,
             hash_content |-> NoDigest]

PrepQuiet ==
    /\ labelIn = <<>>
    /\ itemIn = <<>>
    /\ rpc = "none"
    /\ prepared = NoRecord

PrepInit ==
    /\ labelIn \in PluralLabels \cup SingularLabels
    /\ itemIn \in Items
    /\ rpc = "new"
    /\ prepared = NoRecord

\* prepare_raw_record(instance, entity, moodle_id, data) is called with the
\* label as it is
PrepareRecord(moodle_id, utcnow) ==
    /\ rpc = "new"
    /\ prepared' = prepare_raw_record(MOODLE_INSTANCE, labelIn, moodle_id, itemIn, utcnow)
    /\ rpc' = "direct"
    /\ UNCHANGED <<labelIn, itemIn>>
    /\ UNCHANGED <<coreVars, hashVars, dagVars>>

\* load_raw_data prepares the record of one item of its entity
PrepareInLoad(utcnow) ==
    /\ rpc = "new"
    /\ prepared' = PrepareRecords(labelIn, <<itemIn>>, <<utcnow>>)[1]
    /\ rpc' = "load"
    /\ UNCHANGED <<labelIn, itemIn>>
    /\ UNCHANGED <<coreVars, hashVars, dagVars>>

PrepNext ==
    \E utcnow \in 0..MaxClock :
        \/ \E moodle_id \in {None, 1, 42} : PrepareRecord(moodle_id, utcnow)
        \/ PrepareInLoad(utcnow)

(***************************************************************************)
(* The task graph of the DAG moodle4_elt and its scheduling                *)
(***************************************************************************)
CreateRawSchema == <<"create", "raw_schema">>
Extract(e) == <<"extract", e>>
Load(e) == <<"load", e>>
Transform(e) == <<"transform", e>>
BuildMart == <<"build", "mart_performance">>
UpdateCkan == <<"update", "ckan_metadata">>

\* the entities with an extract and a load task
Extracted ==
    {"users", "courses", "roles", "enrolments", "enrolment_methods", "grade_items",
     "grades", "completions"}

\* the entities with a transform task
Transformed ==
    {"users", "courses", "enrolments", "roles", "grade_items", "grades", "completions"}

Tasks ==
    {CreateRawSchema, BuildMart, UpdateCkan}
    \cup {Extract(e) : e \in Extracted} \cup {Load(e) : e \in Extracted}
    \cup {Transform(e) : e \in Transformed}

\* a >> b: the pairs <<a, b>> of the dependency statements
Dependencies ==
    {<<CreateRawSchema, Extract(e)>> : e \in {"users", "courses", "roles"}}
    \cup {<<Extract("courses"), Extract(e)>> :
              e \in {"enrolments", "enrolment_methods", "grade_items", "grades"}}
    \cup {<<Extract("enrolments"), Extract("completions")>>}
    \cup {<<Extract(e), Load(e)>> : e \in Extracted}
    \cup {<<Load(e), Transform(e)>> : e \in Transformed}
    \cup {<<Transform(e), BuildMart>> : e \in Transformed}
    \cup {<<BuildMart, UpdateCkan>>}

Upstream_Unordered(t) == {}

\* the tasks directly upstream of t
Upstream(t) == {a \in Tasks : <<a, t>> \in Dependencies}

DagQuiet ==
    /\ started = {}
    /\ completed = {}

\* a DAG run is created: no task has run
DagInit ==
    /\ started = {}
    /\ completed = {}

\* the scheduler starts a task whose upstream tasks have all succeeded (the
\* default trigger rule), while fewer than MaxActive tasks are running
TaskStart(t) ==
    /\ t \notin started
    /\ Upstream(t) \subseteq completed
    /\ Cardinality(started \ completed) < MaxActive
    /\ started' = started \cup {t}
    /\ UNCHANGED completed
    /\ UNCHANGED <<coreVars, hashVars, prepVars>>

\* a running task succeeds.  A task that fails for good never gets here, and
\* the tasks downstream of it are never started.
TaskSucceed(t) ==
    /\ t \in started \ completed
    /\ completed' = completed \cup {t}
    /\ UNCHANGED started
    /\ UNCHANGED <<coreVars, hashVars, prepVars>>

DagNext == \E t \in Tasks : TaskStart(t) \/ TaskSucceed(t)

(***************************************************************************)
(* Specifications                                                          *)
(***************************************************************************)
CallQuiet ==
    /\ max_retries = 0
    /\ rate_limit_delay = 0
    /\ pc = "idle"
    /\ total = 0
    /\ attempts = 0
    /\ retriedOn = {}
    /\ response = NoResponse
    /\ data = NoData
    /\ outcome = NoOutcome
    /\ sleeps = <<>>
    /\ log = <<>>
    /\ nCalls = 0
    /\ nReturned = 0
    /\ wsfunction = "none"
    /\ methodResult = NoData

AuxQuiet == HashQuiet /\ PrepQuiet /\ DagQuiet

CfgQuiet == CtorQuiet /\ ParseQuiet /\ TaskQuiet /\ AuxQuiet

InitCall ==
    /\ CallInit
    /\ FanQuiet
    /\ LoadQuiet
    /\ CfgQuiet

InitFan ==
    /\ FanInit
    /\ CallQuiet
    /\ LoadQuiet
    /\ CfgQuiet

InitLoad ==
    /\ LoadInit
    /\ CallQuiet
    /\ FanQuiet
    /\ CfgQuiet

InitCtor ==
    /\ CtorInit
    /\ ParseQuiet
    /\ TaskQuiet
    /\ CallQuiet
    /\ FanQuiet
    /\ LoadQuiet
    /\ AuxQuiet

InitParse ==
    /\ ParseInit
    /\ CtorQuiet
    /\ TaskQuiet
    /\ CallQuiet
    /\ FanQuiet
    /\ LoadQuiet
    /\ AuxQuiet

InitTask ==
    /\ TaskInit
    /\ CtorQuiet
    /\ ParseQuiet
    /\ CallQuiet
    /\ FanQuiet
    /\ LoadQuiet
    /\ AuxQuiet

SpecCall == InitCall /\ [][CallNext]_vars

SpecFan == InitFan /\ [][FanNext]_vars

SpecLoad == InitLoad /\ [][LoadNext]_vars

SpecCtor == InitCtor /\ [][CtorNext]_vars

SpecParse == InitParse /\ [][ParseNext]_vars

SpecTask == InitTask /\ [][TaskNext]_vars

FanOutInit == FanInit \/ ComplInit

InitFanOut ==
    /\ FanOutInit
    /\ CallQuiet
    /\ LoadQuiet
    /\ CfgQuiet

SpecFanOut == InitFanOut /\ [][FanOutNext]_vars

InitDag ==
    /\ DagInit
    /\ HashQuiet
    /\ PrepQuiet
    /\ CtorQuiet
    /\ ParseQuiet
    /\ TaskQuiet
    /\ CallQuiet
    /\ FanQuiet
    /\ LoadQuiet

SpecDag == InitDag /\ [][DagNext]_vars

InitHash ==
    /\ HashInit
    /\ PrepQuiet
    /\ DagQuiet
    /\ CtorQuiet
    /\ ParseQuiet
    /\ TaskQuiet
    /\ CallQuiet
    /\ FanQuiet
    /\ LoadQuiet

SpecHash == InitHash /\ [][HashNext]_vars

InitPrep ==
    /\ PrepInit
    /\ HashQuiet
    /\ DagQuiet
    /\ CtorQuiet
    /\ ParseQuiet
    /\ TaskQuiet
    /\ CallQuiet
    /\ FanQuiet
    /\ LoadQuiet

SpecPrep == InitPrep /\ [][PrepNext]_vars

(***************************************************************************)
(* Properties of _call_api                                                 *)
(***************************************************************************)
\* the decoded body is a mapping with an `exception` key
ErrBody(b) == b.kind = "dict" /\ \E p \in b.obj : p[1] = "exception"

Occurs(x, s) == \E i \in DOMAIN s : s[i] = x

Count(x, s) == Cardinality({i \in DOMAIN s : s[i] = x})

LastN(s, n) == IF Len(s) < n THEN s ELSE SubSeq(s, Len(s) - n + 1, Len(s))

CallEnded == pc = "idle" /\ nCalls > 0

ForcelistOutcomes == {Status(c) : c \in {429, 500, 502, 503, 504}}

\* each request uses up the retry budget: at most max_retries retries, so at
\* most max_retries + 1 requests per call
C5_Bounded ==
    /\ attempts <= max_retries + 1
    /\ pc = "post" => attempts + total = max_retries
    /\ Count("backoff", log) <= max_retries
    /\ Count("request", log) = attempts

\* a call that obtained no usable response ends in the transport error, and a
\* call returns only on a response whose status is no error
C5_Raises ==
    CallEnded =>
        /\ response = NoResponse =>
              /\ outcome.kind = "raise"
              /\ outcome.error.type \in {"ConnectionError", "RetryError"}
              /\ attempts = max_retries + 1
        /\ response.code >= 400 =>
              outcome.kind = "raise" /\ outcome.error.type = "HTTPError"
        /\ outcome.kind = "return" => response.code = 200 /\ outcome.error = NoError
        /\ outcome.kind \in {"return", "raise"}

\* C5 as claimed: a call retries only when the response status is one of 429,
\* 500, 502, 503, 504, makes at most max_retries retries, and raises the
\* transport error when every attempt fails, on a timeout or on an HTTP error
\* status.
C5_Original ==
    /\ retriedOn \subseteq ForcelistOutcomes
    /\ C5_Bounded
    /\ C5_Raises

\* C5 amended: a call retries only when the attempt ended in a status of the
\* forcelist (429, 500, 502, 503, 504), in a connection or read error (a
\* timeout included) or in a 413 carrying Retry-After; it makes at most
\* max_retries retries (max_retries + 1 requests) and so terminates; when the
\* last allowed attempt fails, or the response has an HTTP error status, the
\* transport error is raised and no data is returned.
C5_RetryPolicy ==
    /\ retriedOn \subseteq (ForcelistOutcomes \cup {NetError, StatusRetryAfter(413)})
    /\ C5_Bounded
    /\ C5_Raises

\* a call retried a timeout, used up every retry and raised the transport error
C5_Witness ==
    /\ CallEnded
    /\ max_retries > 0
    /\ NetError \in retriedOn
    /\ attempts = max_retries + 1
    /\ outcome.kind = "raise"
    /\ outcome.error.type \in {"ConnectionError", "RetryError"}

\* C6: when the decoded body of an HTTP-200 reply is a mapping with an
\* `exception` key, the call raises the application-level error whose message
\* holds the remote `message` text ('Unknown error' when absent) and the body
\* is never returned as data.
C6_MoodleErrorRaised ==
    /\ ErrBody(data) => pc \in {"decoded", "idle"}
    /\ (CallEnded /\ ErrBody(data)) =>
          /\ response.code = 200
          /\ outcome.kind = "raise"
          /\ outcome.value = <<>>
          /\ outcome.error.type = "Exception"
          /\ \A p \in data.obj : p[1] = "message" => Occurs(p[2], outcome.error.text)
          /\ (~\E p \in data.obj : p[1] = "message") =>
                Occurs("Unknown error", outcome.error.text)

\* a reply without `message` raised the error with 'Unknown error'
C6_Witness ==
    /\ CallEnded
    /\ data = DictBody(ObjErrorNoMessage)
    /\ outcome.kind = "raise"
    /\ Occurs("Unknown error", outcome.error.text)

\* C7: an application error embedded in a response is never retried: from the
\* moment the body with `exception` is decoded, the call sends no further
\* request and its next step raises the error; the request that brought the
\* body is the last event before the raise.
C7_MoodleErrorNotRetried ==
    [][(pc = "decoded" /\ ErrBody(data)) =>
          /\ attempts' = attempts
          /\ pc' = "idle"
          /\ outcome'.kind = "raise"
          /\ outcome'.error.type = "Exception"
          /\ LastN(log', 3) = <<"request", "response", "raise">>]_vars

\* a call that retried a transport failure and then met the application error
C7_Witness ==
    /\ CallEnded
    /\ ErrBody(data)
    /\ attempts = 2
    /\ outcome.error.type = "Exception"

\* C8: every call that returns performs exactly one delay of rate_limit_delay,
\* after the response was received and before the result is returned; k
\* returned calls of one client have performed exactly k delays, each of
\* rate_limit_delay.
C8_OneDelayPerReturn ==
    /\ Len(sleeps) = nReturned + (IF pc = "return" THEN 1 ELSE 0)
    /\ \A i \in DOMAIN sleeps : sleeps[i] = rate_limit_delay
    /\ (CallEnded /\ outcome.kind = "return") =>
          /\ Count("sleep", log) = 1
          /\ LastN(log, 3) = <<"response", "sleep", "return">>

\* two calls returned and two delays were performed
C8_Witness ==
    /\ pc = "idle"
    /\ nReturned = 2
    /\ Len(sleeps) = 2
    /\ outcome.kind = "return"

\* C9 as claimed: the delay is applied after every completed call, also one
\* that completed with HTTP 200 and an embedded application error: the delay
\* elapses before that error reaches the caller.
C9_Original ==
    (CallEnded /\ ErrBody(data) /\ outcome.kind = "raise") =>
        /\ Occurs("sleep", log)
        /\ Len(sleeps) > nReturned

\* C10: a call that returns always returns a sequence: a decoded body that is
\* a sequence is returned unchanged, and a decoded body that is one object
\* without `exception` is returned as the one-element sequence holding it.
C10_ReturnsSequence ==
    (CallEnded /\ outcome.kind = "return") =>
        /\ data.kind = "list" => outcome.value = data.elems
        /\ data.kind = "dict" =>
              /\ Len(outcome.value) = 1
              /\ outcome.value[1] = data.obj
              /\ ~ErrBody(data)

\* a single object was returned wrapped, and a two-element list as it came
C10_Witness ==
    /\ CallEnded
    /\ outcome.kind = "return"
    /\ \/ data = DictBody(ObjUser1) /\ outcome.value = <<ObjUser1>>
       \/ data = ListBody(<<ObjUser2, ObjUser1>>) /\ outcome.value = <<ObjUser2, ObjUser1>>

(***************************************************************************)
(* Properties of the per-course fan-out                                    *)
(***************************************************************************)
RECURSIVE Flatten(_)
Flatten(ss) == IF ss = <<>> THEN <<>> ELSE Head(ss) \o Flatten(Tail(ss))

\* the per-course call of the i-th course raised, or one of its records could
\* not be tagged
FailedCourse(i) ==
    \/ fetched[i].raises
    \/ \E j \in DOMAIN fetched[i].recs : fetched[i].recs[j].mapping = FALSE

\* the records the i-th course must contribute: all it fetched, in order, each
\* carrying course_id = the course's id; none when it failed or had no call
Contribution(i) ==
    IF ~fetched[i].made \/ FailedCourse(i) THEN <<>>
    ELSE [j \in DOMAIN fetched[i].recs |->
            Mapping({p \in fetched[i].recs[j].obj : p[1] # "course_id"}
                    \cup {<<"course_id", DictGet(courses[i], "id", None)>>})]

\* C4: in a per-course fan-out, whatever subset of the courses fails, no
\* exception escapes the task and the aggregate is exactly the records of the
\* courses that did not fail, in course-list order, each tagged with its
\* owning course_id.
C4_FanOutExcludesFailures ==
    /\ Len(fetched) = ci - 1
    /\ all_records = Flatten([i \in 1..Len(fetched) |-> Contribution(i)])
    /\ fpc = "done" =>
          /\ Len(fetched) = Len(courses)
          /\ fanOutcome.kind = "return"
          /\ fanOutcome.pushed = all_records
          /\ fanOutcome.count = Len(all_records)
          /\ \A n \in DOMAIN all_records :
                /\ all_records[n].mapping
                /\ \E i \in DOMAIN courses :
                      /\ fetched[i].made
                      /\ ~FailedCourse(i)
                      /\ <<"course_id", DictGet(courses[i], "id", None)>>
                            \in all_records[n].obj

\* three courses, the second one's call raised, the result holds the data of
\* the first and the third
C4_Witness ==
    /\ fpc = "done"
    /\ courses = <<Course1, Course2, Course1>>
    /\ fetched = <<CallGives(<<RecA>>), CallRaises, CallGives(<<RecB, RecA>>)>>
    /\ Len(fanOutcome.pushed) = 3
    /\ fanOutcome.kind = "return"

(***************************************************************************)
(* Properties of load_raw_data and the moodle_raw table                    *)
(***************************************************************************)
Key(row) == <<row.instance, row.entity, row.moodle_id, row.ts_extract>>

\* the number of committed rows that satisfy P
CountRows(P(_)) ==
    BagCardinality([row \in {r \in BagToSet(moodle_raw) : P(r)} |->
                       CopiesIn(row, moodle_raw)])

RowsWithKey(key) == LET Same(row) == Key(row) = key IN CountRows(Same)

\* the committed rows of entity ent that carry item as their payload
RowsOfItem(ent, item) ==
    LET Same(row) == /\ row.entity = RStrip(ent, "s")
                     /\ row.data_json = JsonDumps(AsJson(item), FALSE)
    IN CountRows(Same)

Occurrences(item) == Cardinality({i \in DOMAIN xcom : xcom[i] = item})

\* C1 as claimed: persisting a record whose key (instance, entity, moodle_id,
\* ts_extract) is already stored is a silent no-op: however often the same
\* record is persisted, the table holds exactly one row with that key and no
\* duplicate-key error reaches the caller, also for a record whose moodle_id
\* is absent.
C1_Original ==
    /\ \A row \in BagToSet(moodle_raw) : RowsWithKey(Key(row)) = 1
    /\ \A p \in Loads : result[p].error # "duplicate key"

\* C2: a batch is persisted atomically: an insert never changes the committed
\* rows; when an insert or the commit raises, the transaction is rolled back,
\* the committed rows stay as they are and the error reaches the caller; the
\* committed rows change only by a commit that follows the last insert of a
\* batch and adds all rows of its transaction together.
C2_BatchAtomic ==
    [][/\ \A p \in Loads :
            /\ (lpc[p] = "insert" /\ k'[p] = k[p] + 1) => moodle_raw' = moodle_raw
            /\ (lpc[p] = "insert" /\ lpc'[p] = "failed"
                  /\ result'[p].error \in {"insert", "commit"}) =>
                  /\ moodle_raw' = moodle_raw
                  /\ txn'[p] = EmptyBag
                  /\ result'[p].kind = "raise"
            /\ (lpc[p] = "insert" /\ lpc'[p] = "done") =>
                  /\ k[p] = Len(records[p]) + 1
                  /\ moodle_raw' = moodle_raw (+) txn[p]
                  /\ result'[p].kind = "return"
       /\ moodle_raw' # moodle_raw =>
            \E p \in Loads :
                /\ lpc[p] = "insert"
                /\ k[p] = Len(records[p]) + 1
                /\ moodle_raw' = moodle_raw (+) txn[p]]_vars

\* the first insert of a batch of two went in, the second one raised, and no
\* row is in the table
C2_Witness ==
    \E p \in Loads :
        /\ lpc[p] = "failed"
        /\ result[p] = LoadRaised("insert")
        /\ Len(xcom) = 2
        /\ k[p] = 2
        /\ txn[p] = EmptyBag
        /\ moodle_raw = EmptyBag

\* C3 as claimed: persistence is exactly-once-effective: over any sequence of
\* load attempts on the same extracted batch (failed attempts, retries, also
\* after a failure that follows the commit, concurrent re-runs) each extracted
\* item is stored exactly once: never more often than it was extracted, and
\* at least once when an attempt succeeded.
C3_Original ==
    \A p \in Loads : \A i \in DOMAIN xcom :
        /\ RowsOfItem(entity[p], xcom[i]) <= Occurrences(xcom[i])
        /\ lpc[p] = "done" => RowsOfItem(entity[p], xcom[i]) >= 1

\* the unique key can tell the copies of this row apart from no other row: it
\* carries a moodle_id, or the key does not treat NULLs as distinct
Deduplicated(row) == row.moodle_id # None \/ ~nullsDistinct

LaterSnapshot(p) ==
    /\ records[p] # <<>>
    /\ \A i \in DOMAIN records[p] : \A row \in BagToSet(moodle_raw) :
          records[p][i].ts_extract > row.ts_extract

Invalid(ent) ==
    {i \in DOMAIN xcom : validate_json_schema(xcom[i], RStrip(ent, "s")).raises}

WrappedResponse ==
    /\ pc = "idle"
    /\ outcome.kind = "return"
    /\ wsfunction \in DOMAIN WrapperKey
    /\ data.kind = "dict"
    /\ HasKey(data.obj, WrapperKey[wsfunction])

\* C14 as claimed: for list users, grade items and grades, when the response
\* is an object wrapping the collection under `users`, `usergrades` or
\* `tables`, the extraction method run on top of the call executor returns
\* the inner collection of records, not the wrapper object.
C14_Original ==
    WrappedResponse =>
        methodResult = DictGet(data.obj, WrapperKey[wsfunction], ListBody(<<>>))

(***************************************************************************)
(* Properties of configuration resolution and client construction         *)
(***************************************************************************)
\* the configuration the task resolves is in error: the URL is missing or
\* malformed, the token is missing or empty, or the lists hold no mapping for
\* MOODLE_INSTANCE
BadConfiguration ==
    IF Individual
    THEN _validate_url(store.url.value).raises \/ store.token.value = <<>>
    ELSE \/ ~(store.urls.set /\ store.tokens.set)
         \/ LET r == get_moodle_instance_config(MOODLE_INSTANCE, store.urls.value,
                                                store.tokens.value)
            IN r.raises \/ _validate_url(r.config.url).raises
                        \/ r.config.token = <<>>

\* C15 as claimed: a configuration error (malformed or missing URL, missing
\* or empty token, missing instance mapping) surfaces before any network
\* activity: a task whose configuration is in error sends no request, and no
\* request is sent unless configuration resolution and client construction
\* both succeeded.
C15_Original ==
    /\ requests # <<>> => (cpc = "built" /\ client.built /\ taskError = NoTaskError)
    /\ BadConfiguration => requests = <<>>

\* str without the whitespace at its two ends
Trimmed(str) ==
    LET solid == {i \in DOMAIN str : str[i] \notin Whitespace}
    IN IF solid = {} THEN <<>>
       ELSE SubSeq(str, CHOOSE i \in solid : \A j \in solid : i <= j,
                        CHOOSE i \in solid : \A j \in solid : i >= j)

\* str starts with prefix in any letter case
StartsWithAnyCase(str, prefix) ==
    /\ Len(str) >= Len(prefix)
    /\ \A i \in DOMAIN prefix : LowerChar(str[i]) = prefix[i]

\* the trimmed input, with https:// put in front unless it is there already
Prefixed(str) ==
    IF StartsWithAnyCase(Trimmed(str), SchemeHttps) THEN Trimmed(str)
    ELSE SchemeHttps \o Trimmed(str)

\* the constructor has run on urlIn
Constructed == cpc \in {"built", "failed"}

Rejected == cpc = "failed" /\ ctorResult.raises /\ ~client.built

\* C16: the URL validator fails, and no client is constructed, for every
\* input that is empty or whitespace-only, that starts with http:// in any
\* letter case (it is rejected, never upgraded to https), or whose form after
\* optional https:// prefixing is shorter than 12 characters; https://a.co
\* (exactly 12 characters) is accepted.
C16_ValidatorRejects ==
    Constructed =>
        /\ Trimmed(urlIn) = <<>> => Rejected
        /\ StartsWithAnyCase(Trimmed(urlIn), SchemeHttp) => Rejected
        /\ Len(Prefixed(urlIn)) < 12 => Rejected
        /\ urlIn = UrlGood =>
              /\ Len(urlIn) = 12
              /\ cpc = "built"
              /\ client.base_url = UrlGood

\* the constructor has rejected an input that spells http:// in capitals
C16_Witness ==
    /\ Rejected
    /\ StartsWith(urlIn, <<"H", "T", "T", "P", ":", "/", "/">>)
    /\ Len(urlIn) >= 12

\* the validated URL with one trailing / taken off the prefixed input
OneSlashOff(str) ==
    IF str # <<>> /\ str[Len(str)] = "/" THEN SubSeq(str, 1, Len(str) - 1) ELSE str

\* C17 as claimed: for every accepted URL the validator strips surrounding
\* whitespace, strips exactly one trailing / (an input ending in several
\* slashes keeps all but the last), and preserves the path, port and
\* subdomain verbatim.
C17_Original ==
    cpc = "built" => client.base_url = OneSlashOff(Prefixed(urlIn))

\* C17: for every accepted URL the validator strips surrounding whitespace,
\* strips every trailing /, and preserves the rest (scheme, subdomain, host,
\* port, path) verbatim: the validated URL has no whitespace at its ends, does
\* not end in /, and the prefixed input is the validated URL followed by
\* slashes only.
C17_Normalization ==
    cpc = "built" =>
        LET url == client.base_url
            full == Prefixed(urlIn)
        IN /\ url # <<>>
           /\ url[1] \notin Whitespace /\ url[Len(url)] \notin Whitespace
           /\ url[Len(url)] # "/"
           /\ Len(full) >= Len(url)
           /\ SubSeq(full, 1, Len(url)) = url
           /\ \A i \in (Len(url) + 1)..Len(full) : full[i] = "/"

\* a URL with whitespace around it, a subdomain, a path and two trailing
\* slashes was accepted
C17_Witness ==
    /\ cpc = "built"
    /\ urlIn = <<" ">> \o SchemeHttps \o <<"s", ".", "a", ".", "c", "o">>
                     \o <<"/", "/">> \o <<" ">>
    /\ client.base_url = SchemeHttps \o <<"s", ".", "a", ".", "c", "o">>

\* str names a scheme
DeclaresScheme(str) ==
    \E i \in DOMAIN str : i + 2 <= Len(str) /\ SubSeq(str, i, i + 2) = <<":", "/", "/">>

\* C18 as claimed: the validator prefixes https:// exactly when the trimmed
\* input declares no scheme at all, and then logs the notice; an input that
\* already starts with https:// gets no prefix and no notice; an input that
\* declares another scheme such as ftp:// is rejected rather than prefixed and
\* accepted.
C18_Original ==
    (Constructed /\ Trimmed(urlIn) # <<>>) =>
        LET t == Trimmed(urlIn) IN
        /\ ~DeclaresScheme(t) =>
              /\ ctorResult.notice
              /\ cpc = "built" => StartsWith(SchemeHttps \o t, client.base_url)
        /\ StartsWith(t, SchemeHttps) =>
              /\ ~ctorResult.notice
              /\ cpc = "built" => StartsWith(t, client.base_url)
        /\ (DeclaresScheme(t) /\ ~StartsWithAnyCase(t, SchemeHttps)) => Rejected

(***************************************************************************)
(* Properties of parse_moodle_config                                       *)
(***************************************************************************)
\* the entries of a comma-separated list that remain: trimmed, empty ones
\* left out
Remaining(str) ==
    LET pieces == Split(str, ",")
        Solid(x) == x # <<>>
    IN SelectSeq([i \in DOMAIN pieces |-> Trimmed(pieces[i])], Solid)

ParseCalled == ppc \in {"parsed", "resolved"}

\* C19: the config parser splits both inputs on commas, trims whitespace and
\* discards empty entries before counting; it fails when either input is
\* empty, when no entry remains, or when the remaining counts of URLs and
\* tokens differ; otherwise it returns one config per remaining URL, in list
\* order, the i-th config pairing the i-th remaining URL with the i-th
\* remaining token.
C19_ParserPairs ==
    ParseCalled =>
        LET U == Remaining(urlsIn)
            T == Remaining(tokensIn)
        IN /\ parseResult.raises <=>
                 \/ urlsIn = <<>> \/ tokensIn = <<>>
                 \/ U = <<>>
                 \/ Len(U) # Len(T)
           /\ ~parseResult.raises =>
                 /\ Len(parseResult.configs) = Len(U)
                 /\ \A i \in DOMAIN U :
                       /\ parseResult.configs[i].url = U[i]
                       /\ parseResult.configs[i].token = T[i]

\* two configs came out of lists of three entries each, one of them empty
\* and one with whitespace around it
C19_Witness ==
    /\ ParseCalled
    /\ ~parseResult.raises
    /\ Len(parseResult.configs) = 2
    /\ Len(Split(urlsIn, ",")) = 3
    /\ Len(Split(tokensIn, ",")) = 3
    /\ \E i \in DOMAIN urlsIn : urlsIn[i] = " "
    /\ parseResult.configs[1].url # parseResult.configs[2].url

\* C20 as claimed: the config parser assigns the positional instance names
\* instance1..instanceN in list order: the k-th returned config is named
\* `instance` followed by k.
C20_Original ==
    (ParseCalled /\ ~parseResult.raises) =>
        \A n \in DOMAIN parseResult.configs :
            parseResult.configs[n].instance =
                <<"i", "n", "s", "t", "a", "n", "c", "e">> \o <<Digits[n + 1]>>

\* C20: the config parser assigns the positional instance names
\* moodle1..moodleN in list order: the k-th returned config is named `moodle`
\* followed by k, with no gaps and no repeated name.
C20_PositionalNames ==
    (ParseCalled /\ ~parseResult.raises) =>
        /\ \A n \in DOMAIN parseResult.configs :
              parseResult.configs[n].instance =
                  <<"m", "o", "o", "d", "l", "e">> \o <<Digits[n + 1]>>
        /\ \A n \in DOMAIN parseResult.configs, j \in DOMAIN parseResult.configs :
              n # j => parseResult.configs[n].instance # parseResult.configs[j].instance

\* three configs were returned, the third named moodle3
C20_Witness ==
    /\ ParseCalled
    /\ ~parseResult.raises
    /\ Len(parseResult.configs) = 3
    /\ parseResult.configs[3].instance = <<"m", "o", "o", "d", "l", "e", "3">>

(***************************************************************************)
(* Properties of get_moodle_instance_config                                *)
(***************************************************************************)
\* the positions of the parsed configs that carry the wanted name
Named(wanted) ==
    {n \in DOMAIN parseResult.configs : parseResult.configs[n].instance = wanted}

\* C21: resolving an instance name parses the two lists and returns the one
\* config whose instance name equals the requested name, carrying the URL and
\* token at that position; when no parsed config has that name it fails with
\* an error that lists the available instance names, in list order, and it
\* never returns a config of another instance; when the lists do not parse
\* it fails as the parser does.
C21_ResolveByName ==
    ppc = "resolved" =>
        LET U == Remaining(urlsIn)
            T == Remaining(tokensIn)
        IN /\ parseResult.raises =>
                 /\ resolveResult.raises
                 /\ resolveResult.error = parseResult.error
           /\ (~parseResult.raises /\ Named(wantedIn) # {}) =>
                 /\ ~resolveResult.raises
                 /\ Cardinality(Named(wantedIn)) = 1
                 /\ \A n \in Named(wantedIn) :
                       resolveResult.config =
                           [url |-> U[n], token |-> T[n], instance |-> wantedIn]
           /\ (~parseResult.raises /\ Named(wantedIn) = {}) =>
                 /\ resolveResult.raises
                 /\ resolveResult.config = NoConfig
                 /\ resolveResult.error = "Instance not found in configuration"
                 /\ Len(resolveResult.available) = Len(U)
                 /\ \A n \in DOMAIN U :
                       resolveResult.available[n] = parseResult.configs[n].instance
           /\ ~resolveResult.raises => resolveResult.config.instance = wantedIn

\* the third of three different instances was asked for and returned
C21_Witness ==
    /\ ppc = "resolved"
    /\ ~resolveResult.raises
    /\ Len(parseResult.configs) = 3
    /\ resolveResult.config = parseResult.configs[3]
    /\ resolveResult.config.url # parseResult.configs[1].url
    /\ resolveResult.config.token # parseResult.configs[1].token

(***************************************************************************)
(* Properties of compute_hash                                              *)
(***************************************************************************)
RECURSIVE EqualUpToKeyOrder(_, _)
\* the same data but for the order of the keys of its dicts, at any depth
EqualUpToKeyOrder(a, b) ==
    /\ a.t = b.t
    /\ a.n = b.n
    /\ Len(a.elems) = Len(b.elems)
    /\ \A i \in DOMAIN a.elems : EqualUpToKeyOrder(a.elems[i], b.elems[i])
    /\ Len(a.pairs) = Len(b.pairs)
    /\ \A i \in DOMAIN a.pairs : \E j \in DOMAIN b.pairs :
          /\ a.pairs[i][1] = b.pairs[j][1]
          /\ EqualUpToKeyOrder(a.pairs[i][2], b.pairs[j][2])

\* C22: the content fingerprint is independent of key order: data that are
\* equal up to the order of the keys of their dicts, at any nesting level,
\* have the same compute_hash; and the fingerprint is that of the data alone:
\* it is the digest of the text with every dict's keys sorted.
C22_HashKeyOrderIndependent ==
    hpc = "hashed" =>
        /\ EqualUpToKeyOrder(d1, d2) => digest1 = digest2
        /\ digest1 = Md5(JsonDumps(d1, TRUE))
        /\ digest2 = Md5(JsonDumps(d2, TRUE))

\* two fingerprints of data whose outer keys and whose keys inside a list
\* were inserted in different orders
C22_Witness ==
    /\ hpc = "hashed"
    /\ digest1 = digest2
    /\ JsonDumps(d1, FALSE) # JsonDumps(d2, FALSE)
    /\ Len(d1.pairs) = 2
    /\ d1.pairs[1][1] = d2.pairs[2][1]
    /\ d1.pairs[1][2].t = "list"
    /\ d1.pairs[1][2] # d2.pairs[2][2]

(***************************************************************************)
(* Properties of prepare_raw_record                                        *)
(***************************************************************************)
\* the singular of an entity label
Singular(label) ==
    IF label \in PluralLabels THEN SubSeq(label, 1, Len(label) - 1) ELSE label

\* C23 as claimed: record preparation singularizes the entity label when it
\* is given in plural form: prepare_raw_record called with a plural entity
\* such as `users` yields a record whose entity is the singular `user`, and
\* a label already singular is left unchanged.
C23_Original ==
    rpc = "direct" => prepared.entity = Singular(labelIn)

(***************************************************************************)
(* Properties of the request _call_api sends                               *)
(***************************************************************************)
FixedFields == {"wstoken", "wsfunction", "moodlewsrestformat"}

\* the value a fixed field has when no parameter replaces it
FixedValue(key, i) ==
    IF key = "wstoken" THEN client.token
    ELSE IF key = "wsfunction" THEN <<asked[i].function>>
    ELSE <<"json">>

Posted(i) ==
    /\ requests[i].method = "POST"
    /\ requests[i].url = client.base_url \o ServerPath
    /\ \A p \in asked[i].params : p \in requests[i].fields

Completions == fpc \in {"enrolments", "completed"}

\* the id of the course the i-th item of the loop belongs to
OwnerId(i) ==
    IF Completions THEN DictGet(courses[i], "course_id", None)
    ELSE DictGet(courses[i], "id", None)

\* the i-th item has the identifiers its call needs
Identified(i) ==
    /\ OwnerId(i) \notin {None, 0}
    /\ Completions => DictGet(courses[i], "id", None) \notin {None, 0}

\* C27: in every per-course fan-out, a course contributes either all of its
\* fetched records, each tagged with that course's id, or none of them: if
\* the fetch or the tagging of any of its records raises, no record of that
\* course is in the aggregate, the records already accumulated for earlier
\* courses are unchanged, and the loop goes on to the next course; a course
\* without an identifier triggers no remote call.
C27_CourseAllOrNone ==
    [][ci' # ci =>
          LET got == fetched'[ci]
              added == SubSeq(all_records', Len(all_records) + 1, Len(all_records'))
          IN /\ ci' = ci + 1
             /\ fpc' = fpc
             /\ Len(fetched') = ci
             /\ Len(all_records') >= Len(all_records)
             /\ SubSeq(all_records', 1, Len(all_records)) = all_records
             /\ \/ added = <<>>
                \/ /\ Len(added) = Len(got.recs)
                   /\ \A j \in DOMAIN added :
                         /\ added[j].mapping
                         /\ <<"course_id", OwnerId(ci)>> \in added[j].obj
                         /\ \A q \in got.recs[j].obj :
                               q[1] \notin {"course_id", "userid"} => q \in added[j].obj
             /\ (got.raises \/ \E j \in DOMAIN got.recs : ~got.recs[j].mapping) =>
                   /\ added = <<>>
                   /\ errorsLogged' = errorsLogged + 1
             /\ (got.made /\ ~got.raises /\ \A j \in DOMAIN got.recs : got.recs[j].mapping) =>
                   Len(added) = Len(got.recs)
             /\ ~Identified(ci) =>
                   /\ ~got.made
                   /\ called' = called
                   /\ added = <<>>
             /\ Identified(ci) =>
                   /\ got.made
                   /\ called' = Append(called, OwnerId(ci))
      ]_vars

\* the second course's tagging raised on a record that is no mapping after
\* the first course had contributed; the third course was then fetched
C27_Witness ==
    /\ fpc = "loop"
    /\ ci = 4
    /\ fetched[1] = CallGives(<<RecB, RecA>>)
    /\ fetched[2] = CallGives(<<RecA, NotAMapping>>)
    /\ fetched[3] = CallGives(<<RecA>>)
    /\ courses[2] = Course2
    /\ Len(all_records) = 3
    /\ called = <<1, 2, 1>>

(***************************************************************************)
(* Properties of the rows a load stores and the count it reports           *)
(***************************************************************************)
\* nothing is stored and no other transaction is open
AloneOnEmptyTable(p) ==
    /\ moodle_raw = EmptyBag
    /\ \A q \in Loads \ {p} : txn[q] = EmptyBag

\* C25 as claimed: after a load commits a batch, every input item has its own
\* stored row: no two records prepared in the same batch share the key
\* (instance, entity, moodle_id, ts_extract), so the conflict rule never
\* silently drops an item of the batch, also not for items that share one
\* moodle_id.
C25_Original ==
    \A p \in Loads :
        /\ \A i \in DOMAIN records[p], j \in DOMAIN records[p] :
              i # j => Key(records[p][i]) # Key(records[p][j])
        /\ (lpc[p] = "insert" /\ k[p] > Len(records[p]) /\ AloneOnEmptyTable(p)) =>
              BagCardinality(txn[p]) = Len(xcom)

\* C26 as claimed: the count that a committed load returns and logs as loaded
\* equals the number of rows that load actually added to the raw table.
C26_Original ==
    [][\A p \in Loads :
          (lpc[p] = "insert" /\ lpc'[p] = "done") =>
              result'[p].count = BagCardinality(moodle_raw') - BagCardinality(moodle_raw)
      ]_vars

Precedes(a, b) == b \in started => a \in completed

\* C28: in every execution of the task graph no task starts before its
\* prerequisites completed: schema creation precedes the users, courses and
\* roles extractions; extract_courses precedes the enrolments,
\* enrolment-methods, grade-items and grades extractions; extract_enrolments
\* precedes extract_completions; each load of an entity follows that entity's
\* extraction; each transform follows its load; and the mart build follows
\* all seven transforms.
C28_PrerequisitesFirst ==
    /\ \A e \in {"users", "courses", "roles"} : Precedes(CreateRawSchema, Extract(e))
    /\ \A e \in {"enrolments", "enrolment_methods", "grade_items", "grades"} :
          Precedes(Extract("courses"), Extract(e))
    /\ Precedes(Extract("enrolments"), Extract("completions"))
    /\ \A e \in Extracted : Precedes(Extract(e), Load(e))
    /\ \A e \in Transformed : Precedes(Load(e), Transform(e))
    /\ \A e \in Transformed : Precedes(Transform(e), BuildMart)
    /\ Cardinality(Transformed) = 7
    /\ completed \subseteq started

\* the whole graph has run: every task has completed
C28_Witness ==
    /\ completed = Tasks
    /\ Cardinality(Tasks) = 26

\* C29 as claimed: the metadata-catalog update runs at the end of the
\* pipeline: update_ckan_metadata starts only after every other task of the
\* graph (all extractions, all loads, all transforms and the mart build) has
\* completed.
C29_Original ==
    UpdateCkan \in started => (Tasks \ {UpdateCkan}) \subseteq completed

====
